---- MODULE Spec2Model ----
(***************************************************************************)
(* Model of the web-scraper MCP server (src/src/index.ts and its           *)
(* collaborators): the batch orchestrator handleBatchScrape, the two-tier  *)
(* pipeline WebScraper.scrape / scrapeWithAxios / scrapeWithPuppeteer, the *)
(* shared browser session, and the registry / header / export boundaries   *)
(* the units call.  Every await of the source is a suspension point: one    *)
(* action of the model runs one continuation, from the resumption of an     *)
(* await to the next await that can observe or change shared state.         *)
(*                                                                          *)
(* Strings that the code inspects are sequences of tokens: an address is    *)
(* <<scheme, rest>>, markup and messages are sequences of words and         *)
(* separators, so that startsWith, includes and toLowerCase are computed    *)
(* rather than assumed.                                                     *)
(*                                                                          *)
(* Markup is parsed (Load) into a sequence of nodes with parent indices,   *)
(* on which selectors, remove, text and attribute reads are computed; the  *)
(* extractor (extractContent) and the rule engine (src/src/rules/          *)
(* ruleEngine.ts) are translated on that document.  Spec is the server    *)
(* running one batch; RuleSpec is the rule engine under every sequence of  *)
(* calls of its public methods, with a record that extractContent          *)
(* produced; FrontSpec is the server under sequences of tool calls         *)
(* received by handleRequest, the registry and header calls also while a   *)
(* retrieval is in flight.                                                  *)
(***************************************************************************)
EXTENDS Integers, Sequences, FiniteSets, TLC

(* ------------------------------ bounds --------------------------------- *)

\* longest urls list of one batch_scrape request
MaxUrls == 2

(* ------------------------- string primitives --------------------------- *)

\* String.prototype.toLowerCase on one token; tokens without cased letters
\* (markup tags, separators, CJK text) are their own lower case.
LowerToken(t) ==
  CASE t = "Enable"     -> "enable"
    [] t = "ENABLE"     -> "enable"
    [] t = "JavaScript" -> "javascript"
    [] t = "JAVASCRIPT" -> "javascript"
    [] t = "Javascript" -> "javascript"
    [] t = "Please"     -> "please"
    [] t = "Requires"   -> "requires"
    [] t = "Hello"      -> "hello"
    [] t = "Rendered"   -> "rendered"
    [] t = "GitHub.com" -> "github.com"
    [] t = "Docs.test"  -> "docs.test"
    [] t = "HTTPS"      -> "https"
    [] OTHER            -> t

ToLowerCase(s) == [k \in 1..Len(s) |-> LowerToken(s[k])]

\* (mutant) a match on any single token of the needle
IncludesAnyToken(hay, needle) ==
  \E k \in 1..Len(hay) : \E j \in 1..Len(needle) : hay[k] = needle[j]

\* String.prototype.includes: needle occurs as a contiguous run of hay
Includes(hay, needle) ==
  \E k \in 0..(Len(hay) - Len(needle)) :
     \A j \in 1..Len(needle) : hay[k + j] = needle[j]

\* String.prototype.startsWith on the leading token
StartsWith(s, prefix) == Len(s) > 0 /\ s[1] = prefix

(* ------------------------- the mocked network -------------------------- *)

DataDoc    == <<"data:", "text/html,doc">>
StaticUrl  == <<"https://", "GitHub.com", "/static">>
SpaUrl     == <<"http://", "spa.test", "/app">>
DownUrl    == <<"http://", "down.test", "/">>
BlockedUrl == <<"http://", "blocked.test", "/">>
BadUrl     == <<"not a url">>

Addresses == {DataDoc, StaticUrl, SpaUrl, DownUrl, BlockedUrl, BadUrl}

RenderedHtml == <<"<p>", "Rendered", " ", "page", "</p>">>

\* What the outside world answers for each address: the lightweight GET
\* (ok + body, or a failure message) and the browser navigation (the step of
\* scrapeWithPuppeteer that throws, if any, and the rendered markup).
Web(url) ==
  CASE url = DataDoc ->
         [axiosOk |-> FALSE, body |-> <<>>, axiosMsg |-> <<"Unsupported protocol data:">>,
          failAt |-> "none", renderMsg |-> <<>>]
    [] url = StaticUrl ->
         [axiosOk |-> TRUE,
          body |-> <<"<p>", "JavaScript", " ", "enable", " ", "Hello", "</p>">>,
          axiosMsg |-> <<>>, failAt |-> "none", renderMsg |-> <<>>]
    [] url = SpaUrl ->
         [axiosOk |-> TRUE,
          body |-> <<"<noscript>", "Please", " ", "ENABLE", " ", "Javascript", "</noscript>">>,
          axiosMsg |-> <<>>, failAt |-> "none", renderMsg |-> <<>>]
    [] url = DownUrl ->
         [axiosOk |-> FALSE, body |-> <<>>, axiosMsg |-> <<"connect ECONNREFUSED">>,
          failAt |-> "goto", renderMsg |-> <<"net::ERR_CONNECTION_REFUSED">>]
    [] url = BlockedUrl ->
         [axiosOk |-> FALSE, body |-> <<>>,
          axiosMsg |-> <<"Request failed with status code 404">>,
          failAt |-> "none", renderMsg |-> <<>>]
    [] OTHER ->
         [axiosOk |-> FALSE, body |-> <<>>, axiosMsg |-> <<"Invalid URL">>,
          failAt |-> "goto", renderMsg |-> <<"Cannot navigate to invalid URL">>]

\* The host either has Chrome installed at one of the probed paths, or has
\* no browser that can be started at all.
Engines == {"system", "none"}

(* --------------------------- header store ------------------------------ *)

EmptyHeaders == [k \in {} |-> ""]

\* new URL(url): only an address with a network scheme and a host parses
UrlParses(url) == Len(url) >= 2 /\ url[1] \in {"http://", "https://"}

\* new URL(url).hostname: the host, lower-cased by the URL parser
Hostname(url) == LowerToken(url[2])

\* the part of a token before its first ":" or "/": a port or path token
\* starts with one, a scheme token holds both after its name, a host token
\* has neither
BeforeDelimiter(t) ==
  CASE t \in {":8080", "/x", "/static", "/app", "/"} -> ""
    [] t = "HTTPS://" -> "HTTPS"
    [] t = "https://" -> "https"
    [] t = "http://"  -> "http"
    [] OTHER          -> t

\* HeaderManager.normalizeDomain: /^https?:\/\// is replaced by nothing (the
\* pattern matches lower case only), the text is cut at the first "/" and
\* then at the first ":", and lower-cased
NormalizeDomain(domain) ==
  LET noScheme == IF Len(domain) > 0 /\ domain[1] \in {"http://", "https://"}
                  THEN Tail(domain) ELSE domain
  IN  IF Len(noScheme) = 0 THEN "" ELSE LowerToken(BeforeDelimiter(noScheme[1]))

\* HeaderManager.initializeDefaultHeaders
AcceptHtml == "text/html,application/xhtml+xml,application/xml;q=0.9,image/webp,*/*;q=0.8"
AcceptLang == "zh-CN,zh;q=0.9,en;q=0.8"

DefaultHeaders ==
  ("github.com" :> ("Accept" :> AcceptHtml @@ "Accept-Language" :> AcceptLang
                    @@ "Cache-Control" :> "no-cache"))
  @@ ("zhihu.com" :> ("Accept" :> AcceptHtml @@ "Accept-Language" :> AcceptLang
                      @@ "Referer" :> "https://www.zhihu.com/"))
  @@ ("weibo.com" :> ("Accept" :> AcceptHtml @@ "Accept-Language" :> AcceptLang
                      @@ "Referer" :> "https://weibo.com/"))
  @@ ("douban.com" :> ("Accept" :> AcceptHtml @@ "Accept-Language" :> AcceptLang
                       @@ "Referer" :> "https://www.douban.com/"))
  @@ ("jianshu.com" :> ("Accept" :> AcceptHtml @@ "Accept-Language" :> AcceptLang
                        @@ "Referer" :> "https://www.jianshu.com/"))
  @@ ("csdn.net" :> ("Accept" :> AcceptHtml @@ "Accept-Language" :> AcceptLang
                     @@ "Referer" :> "https://www.csdn.net/"))

\* (mutant) a later set replaces what the domain had
SetHeadersReplacing(store, domain, headers) ==
  (NormalizeDomain(domain) :> headers) @@ store

\* HeaderManager.setHeaders on a store: the domain's entry becomes a new
\* object holding its earlier fields overlaid by the given ones
SetHeaders(store, domain, headers) ==
  LET nd       == NormalizeDomain(domain)
      existing == IF nd \in DOMAIN store THEN store[nd] ELSE EmptyHeaders
  IN  (nd :> (headers @@ existing)) @@ store

\* HeaderManager.getHeaders on a store
GetHeaders(store, domain) ==
  LET nd == NormalizeDomain(domain)
  IN  IF nd \in DOMAIN store THEN store[nd] ELSE EmptyHeaders

\* The source's Chinese message texts are written in English below (the
\* module is ASCII): each message keeps its own distinct text.

(* ------------------- results of calls that may throw ------------------- *)

Ok(v)  == [ok |-> TRUE, val |-> v]
Err(m) == [ok |-> FALSE, val |-> m]

(* ------------------------------ markup --------------------------------- *)

\* a sequence given by a rule for its k-th member, as the list of its members
Listed(s) == SubSeq(s, 1, Len(s))

\* the attributes an element may carry; a missing attribute reads as <<>>
NoAttrs == [a \in {} |-> <<>>]

El(tag, class, attrs) ==
  [kind |-> "element", tag |-> tag, class |-> class, attrs |-> attrs, data |-> ""]

\* the start tags that occur in the mock pages, as the parser reads them
StartTags ==
  ("<p>" :> El("p", "", NoAttrs))
  @@ ("<noscript>" :> El("noscript", "", NoAttrs))
  @@ ("<title>" :> El("title", "", NoAttrs))
  @@ ("<h1>" :> El("h1", "", NoAttrs))
  @@ ("<nav>" :> El("nav", "", NoAttrs))
  @@ ("<article>" :> El("article", "", NoAttrs))
  @@ ("<div class='ad'>" :> El("div", "ad", NoAttrs))
  @@ ("<span class='price'>" :> El("span", "price", NoAttrs))
  @@ ("<li class='tag'>" :> El("li", "tag", NoAttrs))
  @@ ("<a>" :> El("a", "", NoAttrs))
  @@ ("<a href=''>" :> El("a", "", "href" :> <<>>))
  @@ ("<a href='/more'>" :> El("a", "", "href" :> <<"/more">>))
  @@ ("<a href='/buy'>" :> El("a", "", "href" :> <<"/buy">>))
  @@ ("<a href='/menu'>" :> El("a", "", "href" :> <<"/menu">>))
  @@ ("<a href='http://'>" :> El("a", "", "href" :> <<"http://">>))
  @@ ("<a href='https://Docs.test/api'>" :>
        El("a", "", "href" :> <<"https://", "Docs.test", "/api">>))
  @@ ("<img src='/ad.png'>" :> El("img", "", "src" :> <<"/ad.png">>))
  @@ ("<img src='/photo.png'>" :> El("img", "", "src" :> <<"/photo.png">>))
  @@ ("<meta name='author' content='Ann'>" :>
        El("meta", "", ("name" :> <<"author">>) @@ ("content" :> <<"Ann">>)))

EndTags ==
  {"</p>", "</noscript>", "</title>", "</h1>", "</nav>", "</article>", "</div>",
   "</span>", "</li>", "</a>"}

\* elements that have no end tag and no content
VoidTags == {"img", "meta"}

Whitespace == {" ", "\n", "\n\n"}

\* elements the parser puts in the head when they come before any content
HeadTags == {"title", "meta"}

\* token k is a start tag that opens an element with content
Opens(html, k) ==
  html[k] \in DOMAIN StartTags /\ StartTags[html[k]].tag \notin VoidTags

\* the number of elements open after each token
Depths(html) ==
  Listed([k \in 1..Len(html) |->
            Cardinality({j \in 1..k : Opens(html, j)})
            - Cardinality({j \in 1..k : html[j] \in EndTags})])

\* the node of the latest of these start tags, the body when there is none
LatestOf(within) ==
  IF within = {} THEN 1 ELSE 1 + CHOOSE j \in within : \A i \in within : i <= j

\* the node that is open when token k is read: the body at depth 0, else
\* the latest start tag before k that brought the depth to what it is
OpenAt(html, depth, k) ==
  IF k = 1 \/ depth[k - 1] <= 0 THEN 1
  ELSE LatestOf({j \in 1..(k - 1) : Opens(html, j) /\ depth[j] = depth[k - 1]})

Parents(html, depth) == Listed([k \in 1..Len(html) |-> OpenAt(html, depth, k)])

\* the node of token t read while node open is open
NodeOf(t, open) ==
  IF t \in DOMAIN StartTags
  THEN StartTags[t] @@
       [parent |-> IF StartTags[t].tag \in HeadTags /\ open = 1 THEN 0 ELSE open]
  ELSE [kind |-> IF t \in EndTags THEN "end" ELSE "text",
        tag |-> "", class |-> "", attrs |-> NoAttrs, data |-> t,
        parent |-> open]

NodesOf(html, open) ==
  Listed([i \in 1..(Len(html) + 1) |->
            IF i = 1 THEN El("body", "", NoAttrs) @@ [parent |-> 0]
            ELSE NodeOf(html[i - 1], open[i - 1])])

\* cheerio.load: the markup parsed into nodes in document order, each with
\* the index of its parent.  Node 1 is the body the parser supplies and
\* node k + 1 comes from token k (an end tag leaves a node of kind "end",
\* which nothing selects or reads); parent 0 means outside the body.  An
\* element's parent is the start tag still open when its token is read.
\* The document is the node sequence and the set of indices removed.
Load(html) ==
  [nodes |-> NodesOf(html, Parents(html, Depths(html))), removed |-> {}]

\* node i lies inside node a (or is a)
RECURSIVE Within(_, _, _)
Within(doc, i, a) ==
  IF i = 0 THEN FALSE
  ELSE IF i = a THEN TRUE
  ELSE Within(doc, doc.nodes[i].parent, a)

\* the ascending sequence of the members of a set of indices
Ascending(S) ==
  Listed([k \in 1..Cardinality(S) |->
            CHOOSE x \in S : Cardinality({y \in S : y <= x}) = k])

\* A selector is a group of alternatives (the comma list); an alternative
\* is a chain of steps (descendant combinator); a step names a tag, a class
\* an id or a required attribute, "" standing for any.
Step(tag, class, id, attr) == [tag |-> tag, class |-> class, id |-> id, attr |-> attr]
Tag(t)   == <<Step(t, "", "", "")>>
Class(c) == <<Step("", c, "", "")>>
Id(x)    == <<Step("", "", x, "")>>

MatchesStep(node, step) ==
  /\ node.kind = "element"
  /\ step.tag = "" \/ node.tag = step.tag
  /\ step.class = "" \/ node.class = step.class
  /\ step.id = "" \/ ("id" \in DOMAIN node.attrs /\ node.attrs["id"] = <<step.id>>)
  /\ step.attr = "" \/ step.attr \in DOMAIN node.attrs

\* node i matches the chain: its last step on i, the earlier ones on
\* ancestors, outermost first
RECURSIVE MatchesChain(_, _, _)
MatchesChain(doc, i, chain) ==
  /\ i # 0
  /\ MatchesStep(doc.nodes[i], chain[Len(chain)])
  /\ \/ Len(chain) = 1
     \/ \E a \in 1..Len(doc.nodes) :
           /\ a # i /\ a \notin doc.removed /\ Within(doc, i, a)
           /\ MatchesChain(doc, a, SubSeq(chain, 1, Len(chain) - 1))

\* $(selector): the matched elements still in the document, in document
\* order
Select(doc, selector) ==
  Ascending({i \in 1..Len(doc.nodes) :
               /\ i \notin doc.removed
               /\ \E k \in 1..Len(selector) : MatchesChain(doc, i, selector[k])})

\* .remove(): the matched elements leave the document with all they contain
Remove(doc, matched) ==
  [doc EXCEPT !.removed =
     @ \cup {i \in 1..Len(doc.nodes) :
               \E k \in 1..Len(matched) : Within(doc, i, matched[k])}]

\* .find(selector): the matches that lie strictly inside one of the elements
Find(doc, elements, selector) ==
  SelectSeq(Select(doc, selector),
            LAMBDA i : \E k \in 1..Len(elements) :
                          i # elements[k] /\ Within(doc, i, elements[k]))

\* the text of one element: its text nodes in document order
TextOf(doc, a) ==
  LET inside == Ascending({i \in 1..Len(doc.nodes) :
                             /\ doc.nodes[i].kind = "text"
                             /\ i \notin doc.removed
                             /\ Within(doc, i, a)})
  IN  Listed([k \in 1..Len(inside) |-> doc.nodes[inside[k]].data])

\* .text() of a selection: the texts of its elements, concatenated
RECURSIVE Text(_, _)
Text(doc, elements) ==
  IF elements = <<>> THEN <<>>
  ELSE TextOf(doc, Head(elements)) \o Text(doc, Tail(elements))

\* String.prototype.trim
Trim(s) ==
  LET solid == {k \in 1..Len(s) : s[k] \notin Whitespace}
  IN  IF solid = {} THEN <<>>
      ELSE SubSeq(s, CHOOSE k \in solid : \A j \in solid : k <= j,
                     CHOOSE k \in solid : \A j \in solid : j <= k)

\* position k of s starts a run of whitespace
StartsRun(s, k) == s[k] \in Whitespace /\ (k = 1 \/ s[k - 1] \notin Whitespace)

\* .replace(/\s+/g, " "): every run of whitespace becomes one space
CollapseWhitespace(s) ==
  LET kept == Ascending({k \in 1..Len(s) : s[k] \notin Whitespace \/ StartsRun(s, k)})
  IN  Listed([i \in 1..Len(kept) |->
                IF s[kept[i]] \in Whitespace THEN " " ELSE s[kept[i]]])

\* .replace(/\n\s*\n/g, "\n\n"): a run of whitespace that holds two line
\* breaks becomes one blank line, any other run stays as it is
CollapseBlankLines(s) ==
  LET RunStart(k) == CHOOSE j \in 1..k : StartsRun(s, j) /\ \A i \in j..k : s[i] \in Whitespace
      RunOf(j) == {k \in j..Len(s) : \A i \in j..k : s[i] \in Whitespace}
      Breaks(j) == Cardinality({k \in RunOf(j) : s[k] = "\n"})
                   + 2 * Cardinality({k \in RunOf(j) : s[k] = "\n\n"})
      kept == Ascending({k \in 1..Len(s) :
                           \/ s[k] \notin Whitespace
                           \/ StartsRun(s, k)
                           \/ Breaks(RunStart(k)) < 2})
  IN  Listed([i \in 1..Len(kept) |->
                IF StartsRun(s, kept[i]) /\ Breaks(kept[i]) >= 2 THEN "\n\n"
                ELSE s[kept[i]]])

\* cleanText of WebScraper and of RuleEngine (the same three steps)
CleanText(text) == Trim(CollapseBlankLines(CollapseWhitespace(text)))

\* the number of characters of a text
Length(s) ==
  Cardinality(UNION {{<<k, c>> : c \in 1..Len(s[k])} : k \in 1..Len(s)})

\* new URL(ref, base).href: an absolute reference stands for itself with
\* its host lower-cased, a path is resolved against a network base, and
\* anything else throws
Schemes == {"http://", "https://"}

ResolveUrl(ref, base) ==
  IF Len(ref) = 3 /\ ref[1] \in Schemes
  THEN Ok(<<ref[1], LowerToken(ref[2]), ref[3]>>)
  ELSE IF Len(ref) = 1 /\ ref[1] \notin Schemes /\ Len(base) = 3 /\ base[1] \in Schemes
  THEN Ok(<<base[1], LowerToken(base[2]), ref[1]>>)
  ELSE Err(<<"Invalid URL">>)

\* the distinct members of a sequence in order of first occurrence
\* ([...new Set(xs)])
RECURSIVE Distinct(_)
Distinct(xs) ==
  IF xs = <<>> THEN <<>>
  ELSE LET front == Distinct(SubSeq(xs, 1, Len(xs) - 1))
           last  == xs[Len(xs)]
       IN  IF \E k \in 1..Len(front) : front[k] = last THEN front ELSE Append(front, last)

\* (mutant) a reference that does not resolve is kept as it was written
RECURSIVE ResolvedAttrsKeepingRaw(_, _, _, _)
ResolvedAttrsKeepingRaw(doc, elements, attr, base) ==
  IF elements = <<>> THEN <<>>
  ELSE LET node == doc.nodes[Head(elements)]
           ref  == IF attr \in DOMAIN node.attrs THEN node.attrs[attr] ELSE <<>>
           url  == ResolveUrl(ref, base)
       IN  (IF ref # <<>> THEN <<IF url.ok THEN url.val ELSE ref>> ELSE <<>>)
           \o ResolvedAttrsKeepingRaw(doc, Tail(elements), attr, base)

\* the attribute of each element of a selection that has it non-empty and
\* resolvable, resolved against the record's address
RECURSIVE ResolvedAttrs(_, _, _, _)
ResolvedAttrs(doc, elements, attr, base) ==
  IF elements = <<>> THEN <<>>
  ELSE LET node == doc.nodes[Head(elements)]
           ref  == IF attr \in DOMAIN node.attrs THEN node.attrs[attr] ELSE <<>>
           url  == ResolveUrl(ref, base)
       IN  (IF ref # <<>> /\ url.ok THEN <<url.val>> ELSE <<>>)
           \o ResolvedAttrs(doc, Tail(elements), attr, base)

(* --------------------------- rule registry ----------------------------- *)

\* a rule field that is not given
NoSelector == <<>>

\* ExtractionRule: a selector or NoSelector per field, the exclude list,
\* and the custom fields as <<name, selector>> entries
Rules(title, content, links, images, exclude, custom) ==
  [title |-> title, content |-> content, links |-> links, images |-> images,
   exclude |-> exclude, custom |-> custom]

\* (mutant) a registration that keeps the fields the new rules leave out
CreateRuleSetMerging(registry, name, rules, description) ==
  IF \E k \in 1..Len(registry) : registry[k].name = name
  THEN [k \in 1..Len(registry) |->
          IF registry[k].name = name
          THEN [name |-> name, description |-> description,
                rules |-> [f \in DOMAIN rules |->
                             IF rules[f] = <<>> THEN registry[k].rules[f] ELSE rules[f]]]
          ELSE registry[k]]
  ELSE Append(registry, [name |-> name, rules |-> rules, description |-> description])

\* RuleEngine.createRuleSet on a registry: Map.set keeps the place of a
\* name that is already a key and appends a new one
CreateRuleSet(registry, name, rules, description) ==
  LET ruleSet == [name |-> name, rules |-> rules, description |-> description]
  IN  IF \E k \in 1..Len(registry) : registry[k].name = name
      THEN [k \in 1..Len(registry) |->
              IF registry[k].name = name THEN ruleSet ELSE registry[k]]
      ELSE Append(registry, ruleSet)

\* RuleEngine.initializeDefaultRuleSets
DefaultRuleSets ==
  LET blog == CreateRuleSet(<<>>, "blog",
        Rules(<<Tag("h1"), Class("post-title"), Class("entry-title"), Class("article-title")>>,
              <<Tag("article"), Class("post-content"), Class("entry-content"),
                Class("article-content"), Tag("main")>>,
              NoSelector, NoSelector,
              <<<<Tag("nav")>>, <<Tag("header")>>, <<Tag("footer")>>, <<Class("sidebar")>>,
                <<Class("comments")>>, <<Class("related-posts")>>>>,
              <<>>),
        "for most blog article pages")
      news == CreateRuleSet(blog, "news",
        Rules(<<Tag("h1"), Class("headline"), Class("news-title")>>,
              <<Class("article-body"), Class("news-content"), Class("story-body")>>,
              NoSelector, NoSelector,
              <<<<Tag("nav")>>, <<Tag("header")>>, <<Tag("footer")>>, <<Class("ad")>>,
                <<Class("advertisement")>>, <<Class("social-share")>>>>,
              <<>>),
        "for news site articles")
      product == CreateRuleSet(news, "product",
        Rules(<<Tag("h1"), Class("product-title"), Class("product-name")>>,
              <<Class("product-description"), Class("product-details")>>,
              NoSelector,
              <<Class("product-images") \o Tag("img"), Class("gallery") \o Tag("img")>>,
              <<>>,
              <<<<"price", <<Class("price"), Class("product-price")>>>>,
                <<"rating", <<Class("rating"), Class("stars")>>>>,
                <<"availability", <<Class("stock"), Class("availability")>>>>>>),
        "for e-commerce product pages")
      documentation == CreateRuleSet(product, "documentation",
        Rules(<<Tag("h1"), Class("doc-title")>>,
              <<Class("doc-content"), Class("documentation"), Class("content")>>,
              <<Class("doc-nav") \o Tag("a"), Class("toc") \o Tag("a")>>,
              NoSelector,
              <<<<Class("sidebar")>>, <<Class("nav")>>, <<Class("breadcrumb")>>>>,
              <<>>),
        "for technical documentation pages")
  IN  CreateRuleSet(documentation, "forum",
        Rules(<<Class("topic-title"), Class("thread-title"), Tag("h1")>>,
              <<Class("post-content"), Class("message-content")>>,
              NoSelector, NoSelector,
              <<<<Class("signature")>>, <<Class("user-info")>>, <<Class("post-meta")>>>>,
              <<>>),
        "for forum thread pages")

\* what a Map.get that finds nothing returns
Undefined == [name |-> "", undefined |-> TRUE]

\* (mutant) a lookup that falls back to the first entry
GetRuleSetOrFirst(registry, name) ==
  IF \E k \in 1..Len(registry) : registry[k].name = name
  THEN registry[CHOOSE k \in 1..Len(registry) : registry[k].name = name]
  ELSE IF registry # <<>> THEN registry[1] ELSE Undefined

\* RuleEngine.getRuleSet
GetRuleSet(registry, name) ==
  IF \E k \in 1..Len(registry) : registry[k].name = name
  THEN registry[CHOOSE k \in 1..Len(registry) : registry[k].name = name]
  ELSE Undefined

\* RuleEngine.listRuleSets
ListRuleSets(registry) == [k \in 1..Len(registry) |-> registry[k].name]

\* (mutant) deleteRuleSet reports success whatever the name
DeleteRuleSetAlwaysTrue(registry, name) ==
  [registry |-> SelectSeq(registry, LAMBDA e : e.name # name),
   deleted  |-> TRUE]

\* RuleEngine.deleteRuleSet: the registry without the name, and whether
\* the name was a key
DeleteRuleSet(registry, name) ==
  [registry |-> SelectSeq(registry, LAMBDA e : e.name # name),
   deleted  |-> \E k \in 1..Len(registry) : registry[k].name = name]

\* (mutant) the exclude step is left out
ApplyExcludeSkipped(doc, exclude) == doc

\* step 1 of applyRules: each exclude selector in turn removes its matches
RECURSIVE ApplyExclude(_, _)
ApplyExclude(doc, exclude) ==
  IF exclude = <<>> THEN doc
  ELSE ApplyExclude(Remove(doc, Select(doc, Head(exclude))), Tail(exclude))

\* Array.prototype.join on texts
RECURSIVE Join(_, _)
Join(texts, separator) ==
  IF texts = <<>> THEN <<>>
  ELSE IF Len(texts) = 1 THEN texts[1]
  ELSE texts[1] \o <<separator>> \o Join(Tail(texts), separator)

\* (mutant) every field with a match is an array
CustomDataAsArrays(doc, custom) ==
  LET matched == {e \in 1..Len(custom) : Select(doc, custom[e][2]) # <<>>}
  IN  [key \in {custom[e][1] : e \in matched} |->
         LET elements == Select(doc, custom[CHOOSE e \in matched : custom[e][1] = key][2])
         IN  [kind |-> "array",
              items |-> [k \in 1..Len(elements) |-> Trim(TextOf(doc, elements[k]))]]]

\* step 6 of applyRules: one match gives a string, several give an array
\* of strings, none leaves the field out
RECURSIVE CustomData(_, _)
CustomData(doc, custom) ==
  IF custom = <<>> THEN [key \in {} |-> <<>>]
  ELSE LET entry    == custom[Len(custom)]
           earlier  == CustomData(doc, SubSeq(custom, 1, Len(custom) - 1))
           elements == Select(doc, entry[2])
       IN  IF Len(elements) = 1
           THEN (entry[1] :> [kind |-> "string", text |-> Trim(Text(doc, elements))])
                @@ earlier
           ELSE IF Len(elements) > 1
           THEN (entry[1] :> [kind |-> "array",
                              items |-> [k \in 1..Len(elements) |->
                                           Trim(TextOf(doc, elements[k]))]])
                @@ earlier
           ELSE earlier

\* step 2 of applyRules: the trimmed text of the first match, else the
\* record's title
RuleTitle(doc, rules, content) ==
  LET titleElement == Select(doc, rules.title)
  IN  IF rules.title # NoSelector /\ titleElement # <<>>
      THEN Trim(TextOf(doc, Head(titleElement)))
      ELSE content.title

\* (mutant) a content selector that matches nothing gives an empty text
RuleContentOfMatchesOnly(doc, rules, content) ==
  LET contentElements == Select(doc, rules.content)
  IN  IF rules.content # NoSelector
      THEN Join([k \in 1..Len(contentElements) |-> TextOf(doc, contentElements[k])],
                "\n\n")
      ELSE content.content

\* step 3 of applyRules: the texts of all matches joined by a blank line,
\* else the record's content
RuleContent(doc, rules, content) ==
  LET contentElements == Select(doc, rules.content)
  IN  IF rules.content # NoSelector /\ contentElements # <<>>
      THEN Join([k \in 1..Len(contentElements) |-> TextOf(doc, contentElements[k])],
                "\n\n")
      ELSE content.content

\* (mutant) the matches are added to the links the record has
RuleLinksAdding(doc, rules, content) ==
  IF rules.links # NoSelector
  THEN content.links \o ResolvedAttrs(doc, Select(doc, rules.links), "href", content.url)
  ELSE content.links

\* step 4 of applyRules: with a links selector the list starts empty and
\* takes the resolved href of each match, else the record's links
RuleLinks(doc, rules, content) ==
  IF rules.links # NoSelector
  THEN ResolvedAttrs(doc, Select(doc, rules.links), "href", content.url)
  ELSE content.links

\* step 5 of applyRules: the same for images and src
RuleImages(doc, rules, content) ==
  IF rules.images # NoSelector
  THEN ResolvedAttrs(doc, Select(doc, rules.images), "src", content.url)
  ELSE content.images

(* ------------------------------ export --------------------------------- *)

ExportFormats == {"markdown", "text", "html", "json"}

\* ExportManager.export: the document in the requested format, or the
\* unsupported-format error
Export(content, format) ==
  IF format \in ExportFormats
  THEN Ok([format |-> format, of |-> content])
  ELSE Err(<<"unsupported export format: ", format>>)

(* ------------------------- pipeline helpers ---------------------------- *)

\* the container selectors extractContent tries, most specific first
ContentSelectors ==
  <<<<Tag("main")>>, <<Tag("article")>>, <<Class("content")>>, <<Class("post-content")>>,
    <<Class("entry-content")>>, <<Id("content")>>, <<Class("main-content")>>,
    <<Tag("body")>>>>

\* what extractContent strips from the whole document as a last resort,
\* and what it strips inside a candidate container
PageNoise ==
  <<Tag("script"), Tag("style"), Tag("nav"), Tag("header"), Tag("footer"), Tag("aside")>>

ContainerNoise == PageNoise \o <<Class("actions"), Class("buttons")>>

\* the reading the clock gives when the record is built
RetrievedAt == "2024-01-01T00:00:00.000Z"

\* the loop over contentSelectors: each candidate that exists is stripped
\* of noise in the document itself and its text taken; the loop stops at
\* the first text of more than 100 characters
RECURSIVE FindContent(_, _, _)

\* the candidate's text was taken from the stripped document
ContainerText(stripped, k, text) ==
  IF Length(text) > 100
  THEN [doc |-> stripped, content |-> text]
  ELSE FindContent(stripped, k + 1, text)

\* candidate k matched element
Container(stripped, k, element) ==
  ContainerText(stripped, k, Trim(Text(stripped, element)))

\* candidate k selected element, which may be empty
Candidate(doc, k, content, element) ==
  IF element = <<>> THEN FindContent(doc, k + 1, content)
  ELSE Container(Remove(doc, Find(doc, element, ContainerNoise)), k, element)

FindContent(doc, k, content) ==
  IF k > Len(ContentSelectors) THEN [doc |-> doc, content |-> content]
  ELSE Candidate(doc, k, content, Select(doc, ContentSelectors[k]))

\* the meta elements with a name (or property) and a content
RECURSIVE Metadata(_, _)
Metadata(doc, elements) ==
  IF elements = <<>> THEN [key \in {} |-> <<>>]
  ELSE LET attrs == doc.nodes[elements[Len(elements)]].attrs
           Attr(a) == IF a \in DOMAIN attrs THEN attrs[a] ELSE <<>>
           name == IF Attr("name") # <<>> THEN Attr("name") ELSE Attr("property")
           earlier == Metadata(doc, SubSeq(elements, 1, Len(elements) - 1))
       IN  IF name # <<>> /\ Attr("content") # <<>>
           THEN (name[1] :> Attr("content")) @@ earlier
           ELSE earlier

\* a || b || c on strings
FirstNonEmpty(a, b, c) == IF a # <<>> THEN a ELSE IF b # <<>> THEN b ELSE c

\* .first().text().trim()
FirstText(doc, elements) ==
  IF elements = <<>> THEN <<>> ELSE Trim(TextOf(doc, Head(elements)))

\* the body's text of the document without the page noise
BodyText(doc) == [doc |-> doc, content |-> Trim(TextOf(doc, 1))]

\* the last resort of extractContent: when the loop left no text, the page
\* noise is removed and the text of the body taken
ContentOrBody(found) ==
  IF found.content # <<>> THEN found
  ELSE BodyText(Remove(found.doc, Select(found.doc, PageNoise)))

\* the record, read from the document as the content steps left it
RecordOf(found, title, url, html) ==
  [url |-> url, title |-> title, content |-> CleanText(found.content), html |-> html,
   links |-> Distinct(ResolvedAttrs(found.doc,
                Select(found.doc, <<<<Step("a", "", "", "href")>>>>), "href", url)),
   images |-> Distinct(ResolvedAttrs(found.doc,
                Select(found.doc, <<<<Step("img", "", "", "src")>>>>), "src", url)),
   metadata |-> Metadata(found.doc, Select(found.doc, <<Tag("meta")>>)),
   timestamp |-> RetrievedAt]

\* WebScraper.extractContent($, url, html) on the document cheerio.load
\* parsed from the markup
ExtractContentOf(doc0, url, html) ==
  RecordOf(ContentOrBody(FindContent(doc0, 1, <<>>)),
           FirstNonEmpty(Trim(Text(doc0, Select(doc0, <<Tag("title")>>))),
                         FirstText(doc0, Select(doc0, <<Tag("h1")>>)),
                         <<"untitled">>),
           url, html)

\* a page with a head, a navigation bar, an advertisement block holding a
\* link, an image and a price, an article with paragraphs, repeated,
\* attribute-less, empty, malformed and absolute links, and after it one
\* more price and three tags
ArticleHtml ==
  <<"<title>", "News", "</title>", "<meta name='author' content='Ann'>",
    "<nav>", "<a href='/menu'>", "Menu", "</a>", "</nav>",
    "<h1>", " ", "Story", "\n", "</h1>",
    "<div class='ad'>", "<a href='/buy'>", "Buy", "</a>", "<img src='/ad.png'>",
       "<span class='price'>", "99", "</span>", "</div>",
    "<article>",
       "<p>", "First", " ", "\n", "para", "</p>", "\n", "<p>", "Second", "</p>",
       "<a href='/more'>", "More", "</a>", "<a href='/more'>", "Again", "</a>",
       "<a>", "Top", "</a>", "<a href=''>", "Self", "</a>",
       "<a href='http://'>", "Bad", "</a>",
       "<a href='https://Docs.test/api'>", "API", "</a>",
       "<img src='/photo.png'>",
    "</article>",
    "<span class='price'>", " ", "42", "</span>",
    "<li class='tag'>", "a", "</li>", "<li class='tag'>", " ", "b", "</li>",
    "<li class='tag'>", "c", "</li>">>

\* the pages of the model: what the mocked network serves, what the
\* browser renders, and the article page
Pages == {RenderedHtml, ArticleHtml} \cup {Web(url).body : url \in Addresses}

\* the record of each page at each address, worked out once
Extracted ==
  [served \in Addresses \X Pages |->
     ExtractContentOf(Load(served[2]), served[1], served[2])] @@ <<>>

\* `const $ = cheerio.load(html); return this.extractContent($, url, html)`
\* as scrapeWithAxios and scrapeWithPuppeteer end: the record built from
\* markup and address
ExtractContent(url, html) == Extracted[<<url, html>>]

\* the records a caller may hold: extracted from the article page or from a
\* bare paragraph, retrieved from a network address or given inline
Records ==
  {ExtractContent(url, html) : url \in {StaticUrl, DataDoc},
                               html \in {ArticleHtml, RenderedHtml}}

\* the rules callers register: one that narrows every field and excludes
\* the advertisement, one whose selectors match nothing, one that only
\* excludes, and one that says nothing
NarrowRules ==
  Rules(<<Tag("h1")>>, <<Tag("p")>>,
        <<Tag("article") \o Tag("a")>>, <<Tag("article") \o Tag("img")>>,
        <<<<Class("ad")>>>>,
        <<<<"price", <<Class("price")>>>>, <<"tags", <<Class("tag")>>>>,
          <<"rating", <<Class("rating")>>>>>>)

UnmatchedRules ==
  Rules(<<Class("headline")>>, <<Class("story-body")>>,
        <<Class("nonexistent-selector")>>, <<Class("gallery") \o Tag("img")>>,
        <<>>, <<<<"price", <<Class("price")>>>>>>)

ExcludeOnlyRules ==
  Rules(NoSelector, NoSelector, NoSelector, NoSelector, <<<<Class("ad")>>>>, <<>>)

EmptyRules == Rules(NoSelector, NoSelector, NoSelector, NoSelector, <<>>, <<>>)

RuleChoices == {NarrowRules, UnmatchedRules, ExcludeOnlyRules, EmptyRules}

\* steps 2 to 6 of applyRules on the document the exclude step left: the
\* fields the rules give
RuleFields(doc, rules, content) ==
  [title |-> RuleTitle(doc, rules, content),
   content |-> CleanText(RuleContent(doc, rules, content)),
   links |-> Distinct(RuleLinks(doc, rules, content)),
   images |-> Distinct(RuleImages(doc, rules, content)),
   customData |-> CustomData(doc, rules.custom)]

\* steps 1 to 6 of applyRules: the stored markup is parsed again and the
\* steps run on that copy in the order of the code
ApplyRuleSteps(rules, content) ==
  RuleFields(ApplyExclude(Load(content.html), rules.exclude), rules, content)

\* the rules the registry can hold and the records the pipeline produces
KnownRules == {DefaultRuleSets[k].rules : k \in 1..Len(DefaultRuleSets)} \cup RuleChoices

RangeOf(f) == {f[x] : x \in DOMAIN f}

KnownRecords == RangeOf(Extracted)

\* the steps of each of these rules on each of these records, worked out once
RuleSteps ==
  [applied \in KnownRules \X KnownRecords |->
     ApplyRuleSteps(applied[1], applied[2])] @@ <<>>

\* (mutant) the result's metadata holds the two new keys only
RuledRecordDroppingMetadata(ruleSetName, content, steps) ==
  [content EXCEPT
     !.title = steps.title,
     !.content = steps.content,
     !.links = steps.links,
     !.images = steps.images,
     !.metadata = ("customData" :> steps.customData)
                  @@ ("appliedRuleSet" :> ruleSetName)]

\* the result of applyRules: the record spread, the four fields the steps
\* gave, and the metadata extended by customData and appliedRuleSet
RuledRecord(ruleSetName, content, steps) ==
  [content EXCEPT
     !.title = steps.title,
     !.content = steps.content,
     !.links = steps.links,
     !.images = steps.images,
     !.metadata = ("customData" :> steps.customData)
                  @@ ("appliedRuleSet" :> ruleSetName)
                  @@ content.metadata]

\* applyRules once the registry gave the rule set, or gave none
ApplyRuleSet(ruleSet, ruleSetName, content) ==
  IF ruleSet = Undefined
  THEN Err(<<"rule set \"", ruleSetName, "\" does not exist">>)
  ELSE Ok(RuledRecord(ruleSetName, content, RuleSteps[<<ruleSet.rules, content>>]))

\* RuleEngine.applyRules: the registry lookup, the steps, the result
ApplyRules(registry, ruleSetName, content) ==
  ApplyRuleSet(GetRuleSet(registry, ruleSetName), ruleSetName, content)

\* jsRequiredKeywords of WebScraper.scrape
JsRequiredKeywords ==
  { <<"nin-xuyao-yunxu-gai-wangzhan-zhixing", " ", "JavaScript">>,
    <<"enable", " ", "JavaScript">>,
    <<"requires", " ", "JavaScript">>,
    <<"not", " ", "support", " ", "a", " ", "browser", " ", "that", " ", "has",
      " ", "JavaScript", " ", "disabled">>,
    <<"Please", " ", "enable", " ", "JavaScript">> }

\* (mutant) the scan compares without lower-casing
ContentIsJSReliantCaseSensitive(html) ==
  \E keyword \in JsRequiredKeywords : Includes(html, keyword)

\* contentIsJSReliant of WebScraper.scrape
ContentIsJSReliant(html) ==
  \E keyword \in JsRequiredKeywords :
     Includes(ToLowerCase(html), ToLowerCase(keyword))

\* the message wrappers of the two tiers' catch blocks
AxiosError(m)     == <<"Axios scrape failed: ">> \o m
PuppeteerError(m) == <<"Puppeteer scrape failed: ">> \o m
BrowserInitError(m) == <<"[BrowserManager] browser initialisation failed: ">> \o m

(* ------------------------------ state ---------------------------------- *)

VARIABLES
  engine,          \* how the host provides a browser binary (environment)
  domainHeaders,   \* HeaderManager.domainHeaders
  ruleSets,        \* RuleEngine.ruleSets, in the Map's insertion order
  record,          \* the ScrapedContent a caller of the rule engine holds
  ret,             \* the last call made on the rule engine and what it returned
  browser,         \* WebScraper.browser (NoBrowser = null)
  executablePath,  \* BrowserManager.executablePath is cached
  openBrowsers,    \* browser processes launched for rendering and not closed
  launched,        \* sessions launched for rendering since the last shutdown
  closePc,         \* position of WebScraper.close: "idle" or "closing"
  closeTarget,     \* the browser close() is closing
  phase,           \* handleBatchScrape: "idle", "running", "returned"
  args,            \* arguments of the current batch_scrape request
  unit,            \* the per-address async functions of the current batch
  settleOrder,     \* indices of the units in the order their promises settled
  response,        \* the results array the batch returned
  reply            \* the request handleRequest completed last and what it returned

vars == <<engine, domainHeaders, ruleSets, record, ret, browser, executablePath, openBrowsers,
          launched, closePc, closeTarget, phase, args, unit,
          settleOrder, response, reply>>

NoBrowser == 0

\* no request has been received yet
NoArgs ==
  [tool |-> "none", urls |-> <<>>, format |-> "markdown", usePuppeteer |-> FALSE,
   ruleSet |-> ""]

\* what handleRequest returns: { content: [{ type: "text", text }] }; the
\* model keeps the request with it, and whether the text is the catch
\* block's
Response(request, error, text) ==
  [request |-> request, content |-> <<[type |-> "text", text |-> text]>>, error |-> error]

\* the request whose arguments, with their defaults, are a
RequestOf(a) == [name |-> a.tool, arguments |-> a]

\* a text: the words written into it, and the documents serialised into it
Words(words)         == [words |-> words, documents |-> <<>>]
Documents(documents) == [words |-> <<>>, documents |-> documents]

NoReply == Response(RequestOf(NoArgs), FALSE, Words(<<>>))

\* no call has been made on the rule engine yet
NoCall == [op |-> "none", name |-> "", rules |-> <<>>, value |-> <<>>]

\* the options a batch_scrape request is called with: a built-in rule set,
\* an unregistered rule set, an unsupported format, and forced rendering
\* with the defaults
BatchOptions ==
  { [format |-> "json",     usePuppeteer |-> FALSE, ruleSet |-> "blog"],
    [format |-> "text",     usePuppeteer |-> FALSE, ruleSet |-> "missing"],
    [format |-> "pdf",      usePuppeteer |-> FALSE, ruleSet |-> ""],
    [format |-> "markdown", usePuppeteer |-> TRUE,  ruleSet |-> ""] }

RECURSIVE SeqsUpTo(_, _)
SeqsUpTo(S, n) ==
  IF n = 0 THEN {<<>>}
  ELSE LET shorter == SeqsUpTo(S, n - 1)
       IN  shorter \cup {Append(q, x) : q \in {r \in shorter : Len(r) = n - 1}, x \in S}

UrlLists == SeqsUpTo(Addresses, MaxUrls)

NoResult == [state |-> "pending", val |-> <<>>]

\* the local state of one unit before its async function has run
FreshUnit ==
  [pc |-> "start", headers |-> EmptyHeaders, strategy |-> "none",
   axios |-> "none", axiosMsg |-> <<>>,
   render |-> "none", renderCalls |-> 0, failedAt |-> "none", own |-> NoBrowser,
   pageOn |-> NoBrowser, page |-> FALSE,
   pending |-> NoResult, scrape |-> NoResult,
   promise |-> [status |-> "pending", value |-> <<>>]]

Units == DOMAIN unit

\* identity of the browser that unit i of the current batch launches
BrowserId(i) == i

Init ==
  /\ engine \in Engines
  /\ domainHeaders = DefaultHeaders
  /\ ruleSets = DefaultRuleSets
  /\ record = ExtractContent(StaticUrl, RenderedHtml)
  /\ ret = NoCall
  /\ browser = NoBrowser
  /\ executablePath = FALSE
  /\ openBrowsers = {}
  /\ launched = {}
  /\ closePc = "idle"
  /\ closeTarget = NoBrowser
  /\ phase = "idle"
  /\ args = NoArgs
  /\ unit = <<>>
  /\ settleOrder = <<>>
  /\ response = <<>>
  /\ reply = NoReply

(* ------------------------ the per-address unit ------------------------- *)

\* the unit's catch block: the entry of an address that failed
FailureEntry(url, msg) == [url |-> url, success |-> FALSE, error |-> msg]

\* the unit's normal return
SuccessEntry(url, exported) == [url |-> url, success |-> TRUE, content |-> exported]

\* the async function returns: its promise is fulfilled with the entry
Settle(u, entry) ==
  [u EXCEPT !.pc = "settled", !.promise = [status |-> "fulfilled", value |-> entry]]

\* an error thrown anywhere inside the unit's try block
UnitCatch(u, url, msg) == Settle(u, FailureEntry(url, msg))

\* an error thrown after the first suspension: a batch unit catches it;
\* handleScrapeUrl has no catch of its own, its promise is rejected
Thrown(u, url, msg) ==
  IF args.tool = "scrape_url"
  THEN [u EXCEPT !.pc = "settled", !.promise = [status |-> "rejected", value |-> msg]]
  ELSE UnitCatch(u, url, msg)

\* the exported text is returned: as the entry of a batch unit, as the
\* response of handleScrapeUrl
Returned(u, url, exported) ==
  IF args.tool = "scrape_url"
  THEN [u EXCEPT !.pc = "settled", !.promise = [status |-> "fulfilled", value |-> exported]]
  ELSE Settle(u, SuccessEntry(url, exported))

\* scrape() rejected: the rejection is thrown at the await
ScrapeRejected(u, url, msg) ==
  Thrown([u EXCEPT !.scrape = [state |-> "err", val |-> msg]], url, msg)

\* after export returned or threw
FinishExported(u, url, exported) ==
  IF exported.ok
  THEN Returned(u, url, exported.val)
  ELSE Thrown(u, url, exported.val)

\* after applyRules returned or threw: export, return
FinishRuled(u, url, ruled) ==
  IF ~ruled.ok
  THEN Thrown(u, url, ruled.val)
  ELSE FinishExported(u, url, Export(ruled.val, args.format))

\* (mutant) the rule set is looked up in the registry as it was constructed
FinishUnitBuiltInRegistry(u, url, rec) ==
  FinishRuled(u, url, IF args.ruleSet # ""
                      THEN ApplyRules(DefaultRuleSets, args.ruleSet, rec)
                      ELSE Ok(rec))

\* the unit after `await this.scraper.scrape` resumed with rec: applyRules
\* when a rule set was named (the registry is read now), export, return.
\* Neither call waits for I/O, so the unit runs to its return in one turn.
FinishUnit(u, url, rec) ==
  FinishRuled(u, url, IF args.ruleSet # ""
                      THEN ApplyRules(ruleSets, args.ruleSet, rec)
                      ELSE Ok(rec))

\* scrape() resolved with rec
ScrapeResolved(u, url, rec) ==
  FinishUnit([u EXCEPT !.scrape = [state |-> "ok", val |-> rec]], url, rec)

\* scrapeWithPuppeteer up to its first suspension: the `!this.browser` test
\* is made now; with no session the binary is resolved (from the cache or an
\* installed Chrome synchronously, else by a probing launch) and a launch
\* follows; with a session a page is requested on it at once.
InvokePuppeteer(u) ==
  LET v == [u EXCEPT !.render = "running", !.renderCalls = @ + 1]
  IN  IF browser = NoBrowser
      THEN IF executablePath \/ engine = "system"
           THEN [v EXCEPT !.pc = "launch"]
           ELSE [v EXCEPT !.pc = "probe"]
      ELSE [v EXCEPT !.pc = "newPage", !.pageOn = browser]

\* (mutant) the inline check is missing
InvokeScrapeNoInlineCheck(u, url, usePuppeteer) ==
  IF usePuppeteer
  THEN InvokePuppeteer([u EXCEPT !.strategy = "forced"])
  ELSE [u EXCEPT !.strategy = "default", !.axios = "pending", !.pc = "axios"]

\* WebScraper.scrape up to its first suspension
InvokeScrape(u, url, usePuppeteer) ==
  IF StartsWith(url, "data:")
  THEN InvokePuppeteer([u EXCEPT !.strategy = "inline"])
  ELSE IF usePuppeteer
       THEN InvokePuppeteer([u EXCEPT !.strategy = "forced"])
       ELSE [u EXCEPT !.strategy = "default", !.axios = "pending", !.pc = "axios"]

\* (mutant) the address is parsed before the try block is entered, so that
\* an unparsable address rejects the unit's promise
StartUnitParsingOutsideTry(url, usePuppeteer) ==
  LET isDataUrl == StartsWith(url, "data:")
  IN  IF ~isDataUrl /\ ~UrlParses(url)
      THEN [FreshUnit EXCEPT !.pc = "settled",
              !.promise = [status |-> "rejected", value |-> <<"Invalid URL">>]]
      ELSE InvokeScrape(
             [FreshUnit EXCEPT !.headers =
                IF isDataUrl THEN EmptyHeaders
                ELSE GetHeaders(domainHeaders, <<Hostname(url)>>)],
             url, usePuppeteer)

\* the unit's async function up to its first suspension
StartUnit(url, usePuppeteer) ==
  LET isDataUrl == StartsWith(url, "data:")
  IN  IF ~isDataUrl /\ ~UrlParses(url)
      THEN UnitCatch(FreshUnit, url, <<"Invalid URL">>)
      ELSE InvokeScrape(
             [FreshUnit EXCEPT !.headers =
                IF isDataUrl THEN EmptyHeaders
                ELSE GetHeaders(domainHeaders, <<Hostname(url)>>)],
             url, usePuppeteer)

\* the units whose promise settled in this step, in index order
RECURSIVE NewlySettled(_, _, _)
NewlySettled(before, after, i) ==
  IF i > Len(after) THEN <<>>
  ELSE (IF after[i].pc = "settled" /\ (i \notin DOMAIN before \/ before[i].pc # "settled")
        THEN <<i>> ELSE <<>>) \o NewlySettled(before, after, i + 1)

\* BrowserManager.ensureBrowserIsReady caches an installed Chrome's path
\* synchronously when a unit reaches it
CachesPath(before, after) ==
  engine = "system" /\ \E i \in DOMAIN after :
     after[i].pc = "launch" /\ (i \notin DOMAIN before \/ before[i].pc # "launch")

\* a retrieval request starts with the units it ran to their first
\* suspension
Begin(a, units) ==
  /\ closePc = "idle"
  /\ args' = a
  /\ unit' = units
  /\ settleOrder' = NewlySettled(<<>>, units, 1)
  /\ executablePath' = (executablePath \/ CachesPath(<<>>, units))
  /\ phase' = "running"
  /\ response' = <<>>
  /\ UNCHANGED <<engine, ruleSets, record, ret, reply, browser, openBrowsers, launched,
                 closePc, closeTarget>>

\* handleBatchScrape up to `await Promise.allSettled`: urls.map runs every
\* unit, in input order, up to its first suspension
BatchStart(urls, format, usePuppeteer, ruleSet) ==
  /\ phase = "idle"
  /\ closePc = "idle"
  /\ args' = [tool |-> "batch_scrape", urls |-> urls, format |-> format,
              usePuppeteer |-> usePuppeteer, ruleSet |-> ruleSet]
  /\ unit' = [i \in 1..Len(urls) |-> StartUnit(urls[i], usePuppeteer)]
  /\ settleOrder' = NewlySettled(<<>>, unit', 1)
  /\ executablePath' = (executablePath \/ CachesPath(<<>>, unit'))
  /\ phase' = "running"
  /\ response' = <<>>
  /\ UNCHANGED <<engine, domainHeaders, ruleSets, record, ret, reply, browser, openBrowsers, launched,
                 closePc, closeTarget>>

\* (mutant) a unit reads its host's headers again each time it resumes
UnitStepRereadingHeaders(i, u2) ==
  /\ unit' = [unit EXCEPT ![i] =
                [u2 EXCEPT !.headers = GetHeaders(domainHeaders, <<Hostname(args.urls[i])>>)]]
  /\ settleOrder' = settleOrder \o NewlySettled(unit, unit', 1)
  /\ executablePath' = (executablePath \/ CachesPath(unit, unit'))
  /\ UNCHANGED <<engine, domainHeaders, ruleSets, record, ret, reply, closePc, closeTarget, phase,
                 args, response>>

\* one unit takes a step to u2; shared state not named here is unchanged
UnitStep(i, u2) ==
  /\ unit' = [unit EXCEPT ![i] = u2]
  /\ settleOrder' = settleOrder \o NewlySettled(unit, unit', 1)
  /\ executablePath' = (executablePath \/ CachesPath(unit, unit'))
  /\ UNCHANGED <<engine, domainHeaders, ruleSets, record, ret, reply, closePc, closeTarget, phase,
                 args, response>>

\* (mutant) the catch block rethrows instead of falling back
ScrapeCatchRethrow(u, url, msg) ==
  ScrapeRejected([u EXCEPT !.axios = "fail", !.axiosMsg = msg], url, msg)

\* scrape's catch block: the lightweight failure is logged and the render
\* tier is tried
ScrapeCatch(u, url, msg) ==
  InvokePuppeteer([u EXCEPT !.axios = "fail", !.axiosMsg = msg])

\* (mutant) JS-dependent markup is refused instead of rendered
ScrapeAfterAxiosStrict(u, url, staticContent) ==
  IF ContentIsJSReliant(staticContent.html)
  THEN ScrapeRejected([u EXCEPT !.axios = "ok"], url, <<"JavaScript", " ", "required">>)
  ELSE ScrapeResolved([u EXCEPT !.axios = "ok"], url, staticContent)

\* scrape after scrapeWithAxios returned staticContent: the JS-dependency
\* heuristic decides between escalating and returning it
ScrapeAfterAxios(u, url, staticContent) ==
  IF ContentIsJSReliant(staticContent.html)
  THEN InvokePuppeteer([u EXCEPT !.axios = "ok"])
  ELSE ScrapeResolved([u EXCEPT !.axios = "ok"], url, staticContent)

\* scrapeWithAxios settles (the GET answered or failed) and scrape continues
AxiosDone(i) ==
  /\ phase = "running" /\ i \in Units /\ unit[i].pc = "axios"
  /\ LET url == args.urls[i]
         w   == Web(url)
     IN  IF w.axiosOk
         THEN UnitStep(i, ScrapeAfterAxios(unit[i], url, ExtractContent(url, w.body)))
         ELSE UnitStep(i, ScrapeCatch(unit[i], url, AxiosError(w.axiosMsg)))
  /\ UNCHANGED <<browser, openBrowsers, launched>>

(* --------------------------- the render tier --------------------------- *)

\* (mutant) the rejection of an escalated rendering falls into scrape's
\* catch block, which renders again
RenderRejectedRetrying(u, url, msg) ==
  IF u.axios = "ok" /\ u.renderCalls < 2
  THEN InvokePuppeteer([u EXCEPT !.render = "fail"])
  ELSE ScrapeRejected([u EXCEPT !.render = "fail"], url, PuppeteerError(msg))

\* scrapeWithPuppeteer rejects before a page exists: catch wraps the
\* message, finally has no page to close
RenderRejected(u, url, msg) ==
  ScrapeRejected([u EXCEPT !.render = "fail"], url, PuppeteerError(msg))

\* BrowserManager.ensureBrowserIsReady found no installed Chrome and its
\* probing puppeteer.launch settles: with no browser on the host it throws,
\* the catch wraps the message, finally has no temporary browser to close
ProbeDone(i) ==
  /\ phase = "running" /\ i \in Units /\ unit[i].pc = "probe"
  /\ engine = "none"
  /\ UnitStep(i, RenderRejected(unit[i], args.urls[i],
                   BrowserInitError(<<"Could not find Chrome">>)))
  /\ UNCHANGED <<browser, openBrowsers, launched>>

\* `this.browser = await puppeteer.launch(...)` resumes: the new session is
\* stored and the unit asks it for a page
LaunchDone(i) ==
  /\ phase = "running" /\ i \in Units /\ unit[i].pc = "launch"
  /\ LET b == BrowserId(i)
     IN  /\ openBrowsers' = openBrowsers \cup {b}
         /\ launched' = launched \cup {b}
         /\ browser' = b
         /\ UnitStep(i, [unit[i] EXCEPT !.own = b, !.pageOn = b, !.pc = "newPage"])

\* `page = await this.browser.newPage()` resumes
NewPageDone(i) ==
  /\ phase = "running" /\ i \in Units /\ unit[i].pc = "newPage"
  /\ IF unit[i].pageOn \in openBrowsers
     THEN UnitStep(i, [unit[i] EXCEPT !.page = TRUE, !.pc = "page"])
     ELSE UnitStep(i, RenderRejected(unit[i], args.urls[i], <<"Target closed">>))
  /\ UNCHANGED <<browser, openBrowsers, launched>>

\* (mutant) a failing page call rejects at once, skipping finally
PageDoneLeakingOnFailure(i) ==
  /\ phase = "running" /\ i \in Units /\ unit[i].pc = "page"
  /\ LET w == Web(args.urls[i])
         u == unit[i]
     IN  IF u.pageOn \notin openBrowsers \/ w.failAt # "none"
         THEN UnitStep(i, RenderRejected([u EXCEPT !.failedAt = "goto"],
                             args.urls[i], w.renderMsg))
         ELSE UnitStep(i, [u EXCEPT !.render = "ok", !.pc = "closePage",
                 !.pending = [state |-> "ok",
                              val |-> ExtractContent(args.urls[i], RenderedHtml)]])
  /\ UNCHANGED <<browser, openBrowsers, launched>>

\* The awaited calls on the page (setViewport, setExtraHTTPHeaders when
\* headers were given, setUserAgent, goto, the readiness wait, content, the
\* optional screenshot) run to the first one that throws: where the address
\* makes one throw, or at once when the session is gone.  catch wraps the
\* message; otherwise extractContent builds the record.  Either result
\* waits for finally.
PageDone(i) ==
  /\ phase = "running" /\ i \in Units /\ unit[i].pc = "page"
  /\ LET w == Web(args.urls[i])
         u == unit[i]
     IN  IF u.pageOn \notin openBrowsers
         THEN UnitStep(i, [u EXCEPT !.render = "fail", !.pc = "closePage",
                 !.failedAt = "setup",
                 !.pending = [state |-> "err", val |-> PuppeteerError(<<"Target closed">>)]])
         ELSE IF w.failAt # "none"
         THEN UnitStep(i, [u EXCEPT !.render = "fail", !.pc = "closePage",
                 !.failedAt = w.failAt,
                 !.pending = [state |-> "err", val |-> PuppeteerError(w.renderMsg)]])
         ELSE UnitStep(i, [u EXCEPT !.render = "ok", !.pc = "closePage",
                 !.pending = [state |-> "ok",
                              val |-> ExtractContent(args.urls[i], RenderedHtml)]])
  /\ UNCHANGED <<browser, openBrowsers, launched>>

\* (mutant) finally closes the whole session when the call failed
PageClosedClosingSession(i) ==
  /\ phase = "running" /\ i \in Units /\ unit[i].pc = "closePage"
  /\ LET u == [unit[i] EXCEPT !.page = FALSE, !.pending = NoResult]
         r == unit[i].pending
     IN  IF r.state = "ok"
         THEN /\ UnitStep(i, ScrapeResolved(u, args.urls[i], r.val))
              /\ openBrowsers' = openBrowsers
         ELSE /\ UnitStep(i, ScrapeRejected(u, args.urls[i], r.val))
              /\ openBrowsers' = openBrowsers \ {unit[i].pageOn}
  /\ UNCHANGED <<browser, launched>>

\* finally: `await page.close()` resumes, then scrapeWithPuppeteer and
\* scrape settle with the pending result
PageClosed(i) ==
  /\ phase = "running" /\ i \in Units /\ unit[i].pc = "closePage"
  /\ LET u == [unit[i] EXCEPT !.page = FALSE, !.pending = NoResult]
         r == unit[i].pending
     IN  IF r.state = "ok"
         THEN UnitStep(i, ScrapeResolved(u, args.urls[i], r.val))
         ELSE UnitStep(i, ScrapeRejected(u, args.urls[i], r.val))
  /\ UNCHANGED <<browser, openBrowsers, launched>>

(* --------------------------- the batch join ---------------------------- *)

\* (mutant) a join that resolves as soon as one unit has settled
AnySettled == Units = {} \/ \E j \in Units : unit[j].promise.status # "pending"

\* Promise.allSettled resolves when no unit's promise is pending
AllSettled == \A i \in Units : unit[i].promise.status # "pending"

\* (mutant) results collected in the order the units settled
JoinResultsAsSettled(us) ==
  [k \in 1..Len(us) |-> us[settleOrder[k]].promise.value]

\* settledResults.map: a fulfilled unit contributes its value, a rejected
\* one an entry built from the reason
JoinResults(us) ==
  [i \in 1..Len(us) |->
     IF us[i].promise.status = "fulfilled"
     THEN us[i].promise.value
     ELSE [success |-> FALSE,
           error |-> <<"an unknown scrape task failed: ">> \o us[i].promise.value]]

\* handleBatchScrape resumes after `await Promise.allSettled` and returns
BatchJoin ==
  /\ phase = "running" /\ args.tool = "batch_scrape"
  /\ AllSettled
  /\ response' = JoinResults(unit)
  /\ reply' = Response(RequestOf(args), FALSE, Documents(response'))
  /\ phase' = "returned"
  /\ UNCHANGED <<engine, domainHeaders, ruleSets, record, ret, browser, executablePath,
                 openBrowsers, launched, closePc, closeTarget, args, unit, settleOrder>>

(* ----------------------------- shutdown -------------------------------- *)

\* WebScraper.close up to `await this.browser.close()`; the owning process
\* calls it when its requests have returned
CloseBegin ==
  /\ closePc = "idle"
  /\ phase # "running"
  /\ browser # NoBrowser
  /\ closePc' = "closing"
  /\ closeTarget' = browser
  /\ UNCHANGED <<engine, domainHeaders, ruleSets, record, ret, reply, browser, executablePath,
                 openBrowsers, launched, phase, args, unit, settleOrder,
                 response>>

\* the browser has closed; `this.browser = null`
CloseEnd ==
  /\ closePc = "closing"
  /\ openBrowsers' = openBrowsers \ {closeTarget}
  /\ browser' = NoBrowser
  /\ launched' = {}
  /\ closePc' = "idle"
  /\ closeTarget' = NoBrowser
  /\ UNCHANGED <<engine, domainHeaders, ruleSets, record, ret, reply, executablePath, phase, args, unit,
                 settleOrder, response>>

(* -------------------------- specification ------------------------------ *)

Next ==
  \/ \E urls \in UrlLists, o \in BatchOptions :
        BatchStart(urls, o.format, o.usePuppeteer, o.ruleSet)
  \/ \E i \in 1..MaxUrls : AxiosDone(i)
  \/ \E i \in 1..MaxUrls : ProbeDone(i)
  \/ \E i \in 1..MaxUrls : LaunchDone(i)
  \/ \E i \in 1..MaxUrls : NewPageDone(i)
  \/ \E i \in 1..MaxUrls : PageDone(i)
  \/ \E i \in 1..MaxUrls : PageClosed(i)
  \/ BatchJoin
  \/ CloseBegin
  \/ CloseEnd

Spec == Init /\ [][Next]_vars

\* the event loop runs the continuation of `await Promise.allSettled` once
\* it is ready
FairSpec == Spec /\ WF_vars(BatchJoin)

(* --------------------------- the front end ----------------------------- *)

\* a field of the arguments object, or its default where the caller gave none
Or(a, field, default) == IF field \in DOMAIN a THEN a[field] ELSE default

\* what reading a property of undefined throws
TypeError(property) ==
  <<"Cannot read properties of undefined (reading '", property, "')">>

\* (mutant) the catch block throws the error on
CaughtRethrowing(request, msg) ==
  [request |-> request, content |-> <<>>, error |-> TRUE, thrown |-> msg]

\* the catch block of handleRequest: the uniform error text
Caught(request, msg) == Response(request, TRUE, Words(<<"error: ">> \o msg))

\* the value undefined where a name is expected: as a key of the registry
\* and in a message it reads "undefined", which no caller of the model uses
\* as a name
UndefinedName == "undefined"

\* a request that is answered in the turn that received it touches no
\* retrieval in flight
Answered(r) ==
  /\ reply' = r
  /\ UNCHANGED <<engine, record, ret, browser, executablePath, openBrowsers, launched,
                 closePc, closeTarget, phase, args, unit, settleOrder, response>>

\* handleRequest with a name no case of the switch takes
UnknownTool(request) ==
  /\ request.name \notin {"scrape_url", "create_rule_set", "set_domain_headers", "batch_scrape"}
  /\ Answered(Caught(request, <<"unknown or unsupported tool: ", request.name>>))
  /\ UNCHANGED <<domainHeaders, ruleSets>>

\* handleCreateRuleSet: the fields are read and handed to createRuleSet as
\* they are
HandleCreateRuleSet(request) ==
  LET name == Or(request.arguments, "name", UndefinedName)
  IN  /\ request.name = "create_rule_set"
      /\ ruleSets' = CreateRuleSet(ruleSets, name, request.arguments.rules, "")
      /\ Answered(Response(request, FALSE, Words(<<"rule set \"", name, "\" created">>)))
      /\ UNCHANGED domainHeaders

\* handleSetDomainHeaders: the fields are read and handed to setHeaders as
\* they are; normalizeDomain throws on a domain that is undefined, and
\* spreading headers that are undefined adds no field
HandleSetDomainHeaders(request) ==
  LET a == request.arguments
  IN  /\ request.name = "set_domain_headers"
      /\ IF "domain" \notin DOMAIN a
         THEN /\ Answered(Caught(request, TypeError("replace")))
              /\ UNCHANGED domainHeaders
         ELSE /\ domainHeaders' = SetHeaders(domainHeaders, a.domain,
                                             Or(a, "headers", EmptyHeaders))
              /\ Answered(Response(request, FALSE,
                                   Words(<<"headers of domain ">> \o a.domain \o <<" set">>)))
      /\ UNCHANGED ruleSets

\* handleScrapeUrl up to `await this.scraper.scrape`: the one-time headers
\* are stored for the host, the host's headers read back, and the pipeline
\* entered; an error thrown before that reaches handleRequest's catch in
\* the same turn
HandleScrapeUrl(request) ==
  LET a         == request.arguments
      url       == Or(a, "url", <<>>)
      isDataUrl == StartsWith(url, "data:")
      stored    == IF ~isDataUrl /\ "customHeaders" \in DOMAIN a
                   THEN SetHeaders(domainHeaders, <<Hostname(url)>>, a.customHeaders)
                   ELSE domainHeaders
      defaults  == [tool |-> "scrape_url", urls |-> <<url>>,
                    format |-> Or(a, "format", "markdown"),
                    usePuppeteer |-> Or(a, "usePuppeteer", FALSE),
                    ruleSet |-> Or(a, "ruleSet", "")]
  IN  /\ request.name = "scrape_url"
      /\ phase # "running"
      /\ UNCHANGED ruleSets
      /\ IF "url" \notin DOMAIN a
         THEN Answered(Caught(request, TypeError("startsWith"))) /\ UNCHANGED domainHeaders
         ELSE IF ~isDataUrl /\ ~UrlParses(url)
         THEN Answered(Caught(request, <<"Invalid URL">>)) /\ UNCHANGED domainHeaders
         ELSE /\ domainHeaders' = stored
              /\ Begin(IF "customHeaders" \in DOMAIN a
                       THEN defaults @@ [customHeaders |-> a.customHeaders]
                       ELSE defaults,
                       <<InvokeScrape(
                           [FreshUnit EXCEPT !.headers =
                              IF isDataUrl THEN EmptyHeaders
                              ELSE GetHeaders(stored, <<Hostname(url)>>)],
                           url, Or(a, "usePuppeteer", FALSE))>>)

\* handleRequest resumes from `await this.handleScrapeUrl(args)`: the
\* response is returned, a rejection goes through the catch block
ScrapeUrlReturn ==
  /\ phase = "running" /\ args.tool = "scrape_url"
  /\ AllSettled
  /\ reply' = IF unit[1].promise.status = "fulfilled"
              THEN Response(RequestOf(args), FALSE, Documents(<<unit[1].promise.value>>))
              ELSE Caught(RequestOf(args), unit[1].promise.value)
  /\ phase' = "returned"
  /\ UNCHANGED <<engine, domainHeaders, ruleSets, record, ret, browser, executablePath,
                 openBrowsers, launched, closePc, closeTarget, args, unit, settleOrder,
                 response>>

\* handleBatchScrape received by handleRequest: reading urls.length throws
\* when urls is undefined
HandleBatchScrape(request) ==
  LET a == request.arguments
  IN  /\ request.name = "batch_scrape"
      /\ phase # "running"
      /\ UNCHANGED <<domainHeaders, ruleSets>>
      /\ IF "urls" \notin DOMAIN a
         THEN Answered(Caught(request, TypeError("length")))
         ELSE Begin([tool |-> "batch_scrape", urls |-> a.urls,
                     format |-> Or(a, "format", "markdown"),
                     usePuppeteer |-> Or(a, "usePuppeteer", FALSE),
                     ruleSet |-> Or(a, "ruleSet", "")],
                    [i \in 1..Len(a.urls) |->
                       StartUnit(a.urls[i], Or(a, "usePuppeteer", FALSE))])

\* the request headers the lightweight tier sends: its User-Agent overlaid
\* by the headers it was given
AxiosRequestHeaders(headers) ==
  headers @@ ("User-Agent" :> "Mozilla/5.0 Chrome/91.0.4472.124")

\* the extra headers the render tier sets on its page: those it was given
PageExtraHeaders(headers) == headers

\* the requests the clients of the model send: each tool with its fields
\* and without one it requires, and a tool the server does not have
OnceHeaders == ("X-Once" :> "1")

Request(name, arguments) == [name |-> name, arguments |-> arguments]

Requests ==
  { Request("scrape_url", [url |-> StaticUrl, customHeaders |-> OnceHeaders]),
    Request("scrape_url", [url |-> StaticUrl, format |-> "json", ruleSet |-> "mine"]),
    Request("scrape_url", [url |-> DownUrl]),
    Request("scrape_url", [url |-> BadUrl]),
    Request("scrape_url", [format |-> "text"]),
    Request("batch_scrape", [urls |-> <<StaticUrl, SpaUrl>>, format |-> "json",
                             ruleSet |-> "mine"]),
    Request("batch_scrape", [format |-> "json"]),
    Request("set_domain_headers", [domain |-> <<"https://", "GitHub.com", ":8080", "/x">>,
                                   headers |-> ("X-Token" :> "a")]),
    Request("set_domain_headers", [domain |-> <<"github.com">>,
                                   headers |-> ("X-Token" :> "b")]),
    Request("set_domain_headers", [domain |-> <<"HTTPS://", "GitHub.com">>,
                                   headers |-> ("X-Token" :> "a")]),
    Request("set_domain_headers", [domain |-> <<"github.com">>]),
    Request("set_domain_headers", [headers |-> ("X-Token" :> "a")]),
    Request("create_rule_set", [name |-> "mine", rules |-> NarrowRules]),
    Request("create_rule_set", [name |-> "mine", rules |-> EmptyRules]),
    Request("create_rule_set", [rules |-> EmptyRules]),
    Request("delete_rule_set", [name |-> "blog"]) }

\* the server after construction, before its first request, on a host
\* with an installed Chrome (the probing launch of ensureBrowserIsReady
\* does not happen there)
FrontInit == Init /\ engine = "system"

FrontNext ==
  \/ \E request \in Requests : HandleScrapeUrl(request)
  \/ \E request \in Requests : HandleBatchScrape(request)
  \/ \E request \in Requests : HandleCreateRuleSet(request)
  \/ \E request \in Requests : HandleSetDomainHeaders(request)
  \/ \E request \in Requests : UnknownTool(request)
  \/ \E i \in 1..MaxUrls : AxiosDone(i)
  \/ \E i \in 1..MaxUrls : LaunchDone(i)
  \/ \E i \in 1..MaxUrls : NewPageDone(i)
  \/ \E i \in 1..MaxUrls : PageDone(i)
  \/ \E i \in 1..MaxUrls : PageClosed(i)
  \/ ScrapeUrlReturn
  \/ BatchJoin

\* the server under every sequence of tool calls, one retrieval request at
\* a time, the registry and header requests also while it is in flight
FrontSpec == FrontInit /\ [][FrontNext]_vars

(* ------------------------- the rule engine ----------------------------- *)

\* the names callers register under (a built-in one and a new one) and the
\* names they ask for (also a second built-in and one never registered)
RegisterNames == {"blog", "mine"}
AskedNames    == RegisterNames \cup {"news", "ghost"}

\* the server state, which no rule engine call touches
serverVars == <<engine, domainHeaders, browser, executablePath, openBrowsers,
                launched, closePc, closeTarget, phase, args, unit, settleOrder,
                response, reply>>

Call(op, name, rules, value) == [op |-> op, name |-> name, rules |-> rules, value |-> value]

\* the rule engine after construction, and a record in its caller's hands
RuleInit ==
  /\ engine = "system"
  /\ domainHeaders = DefaultHeaders
  /\ ruleSets = DefaultRuleSets
  /\ record \in Records
  /\ ret = NoCall
  /\ browser = NoBrowser
  /\ executablePath = FALSE
  /\ openBrowsers = {}
  /\ launched = {}
  /\ closePc = "idle"
  /\ closeTarget = NoBrowser
  /\ phase = "idle"
  /\ args = NoArgs
  /\ unit = <<>>
  /\ settleOrder = <<>>
  /\ response = <<>>
  /\ reply = NoReply

\* a call of RuleEngine.createRuleSet
CallCreateRuleSet(name, rules) ==
  /\ ruleSets' = CreateRuleSet(ruleSets, name, rules, "")
  /\ ret' = Call("createRuleSet", name, rules, <<>>)
  /\ UNCHANGED <<record, serverVars>>

\* a call of RuleEngine.deleteRuleSet
CallDeleteRuleSet(name) ==
  /\ LET d == DeleteRuleSet(ruleSets, name)
     IN  /\ ruleSets' = d.registry
         /\ ret' = Call("deleteRuleSet", name, <<>>, d.deleted)
  /\ UNCHANGED <<record, serverVars>>

\* a call of RuleEngine.getRuleSet
CallGetRuleSet(name) ==
  /\ ret' = Call("getRuleSet", name, <<>>, GetRuleSet(ruleSets, name))
  /\ UNCHANGED <<ruleSets, record, serverVars>>

\* a call of RuleEngine.listRuleSets
CallListRuleSets ==
  /\ ret' = Call("listRuleSets", "", <<>>, ListRuleSets(ruleSets))
  /\ UNCHANGED <<ruleSets, record, serverVars>>

\* a call of RuleEngine.applyRules on the caller's record: the engine
\* parses a copy of the markup and assigns to no field of its argument
CallApplyRules(name) ==
  /\ ret' = Call("applyRules", name, <<>>, ApplyRules(ruleSets, name, record))
  /\ UNCHANGED <<ruleSets, record, serverVars>>

RuleNext ==
  \/ \E name \in RegisterNames, rules \in RuleChoices : CallCreateRuleSet(name, rules)
  \/ \E name \in AskedNames : CallDeleteRuleSet(name)
  \/ \E name \in AskedNames : CallGetRuleSet(name)
  \/ CallListRuleSets
  \/ \E name \in AskedNames : CallApplyRules(name)

RuleSpec == RuleInit /\ [][RuleNext]_vars


(* ------------------------------ claims --------------------------------- *)

UrlOf(i) == args.urls[i]

\* the render tier's answer for an address, whichever call asks
RenderOutcome(url) ==
  IF engine = "none"
  THEN Err(PuppeteerError(BrowserInitError(<<"Could not find Chrome">>)))
  ELSE IF Web(url).failAt # "none"
       THEN Err(PuppeteerError(Web(url).renderMsg))
       ELSE Ok(ExtractContent(url, RenderedHtml))

\* the markup contains, ignoring case, one of the phrases that announce a
\* no-script fallback
HasJsDependencyPhrase(html) ==
  \E phrase \in JsRequiredKeywords :
     \E k \in 0..(Len(html) - Len(phrase)) :
        \A j \in 1..Len(phrase) : LowerToken(html[k + j]) = LowerToken(phrase[j])

\* the entry an address gets from a batch that holds it alone, under the
\* options of the current request
IsolatedEntry(url) ==
  IF ~StartsWith(url, "data:") /\ ~UrlParses(url)
  THEN [url |-> url, success |-> FALSE, error |-> <<"Invalid URL">>]
  ELSE LET w == Web(url)
           fetched ==
             IF StartsWith(url, "data:") \/ args.usePuppeteer THEN RenderOutcome(url)
             ELSE IF w.axiosOk /\ ~HasJsDependencyPhrase(w.body)
                  THEN Ok(ExtractContent(url, w.body))
                  ELSE RenderOutcome(url)
           ruled ==
             IF ~fetched.ok \/ args.ruleSet = "" THEN fetched
             ELSE ApplyRules(ruleSets, args.ruleSet, fetched.val)
           exported == IF ~ruled.ok THEN ruled ELSE Export(ruled.val, args.format)
       IN  IF exported.ok
           THEN [url |-> url, success |-> TRUE, content |-> exported.val]
           ELSE [url |-> url, success |-> FALSE, error |-> exported.val]

\* C1: the result of a batch holds exactly one entry per input address and
\* entry i carries input address i, whatever the order in which the units
\* settled.
C1_OutputOrderIsInputOrder ==
  phase = "returned" =>
    /\ Len(response) = Len(args.urls)
    /\ \A i \in 1..Len(args.urls) :
          "url" \in DOMAIN response[i] /\ response[i].url = args.urls[i]

\* a batch of two different addresses has returned and its second unit
\* settled before its first
C1_Witness ==
  /\ phase = "returned"
  /\ settleOrder = <<2, 1>>
  /\ args.urls[1] # args.urls[2]

\* C2: when an address of a batch fails at any step, its entry is
\* {success: false, error}, every other entry is what that address gets when
\* it is alone in the batch, and the batch itself returns.
C2_FailureIsIsolated ==
  phase = "returned" =>
    \A i \in 1..Len(args.urls) :
       /\ response[i] = IsolatedEntry(args.urls[i])
       /\ ~response[i].success =>
             DOMAIN response[i] = {"url", "success", "error"}

\* a batch has returned in which one address failed and another succeeded
C2_Witness ==
  /\ phase = "returned"
  /\ Len(response) = 2
  /\ ~response[1].success
  /\ response[2].success

\* no unit of the batch is still running
NoUnitPending == \A i \in Units : unit[i].pc = "settled"

\* C3: batch_scrape returns only after every per-address unit has settled:
\* in no reachable state has the batch returned while a unit is pending, and
\* once every unit has settled the batch eventually returns.
C3_ReturnsOnlyWhenAllSettled ==
  /\ [](phase = "returned" => NoUnitPending)
  /\ ((phase = "running" /\ NoUnitPending) ~> (phase = "returned"))

\* a batch of several units has returned, its units having settled one
\* after another
C3_Witness ==
  /\ phase = "returned"
  /\ Len(args.urls) >= 2
  /\ NoUnitPending
  /\ \E i \in Units : unit[i].scrape.state = "ok"
  /\ \E i \in Units : unit[i].scrape.state = "err"

\* the scrape call of unit i has ended
ScrapeEnded(i) == unit[i].scrape.state # "pending"

C5_ErrorCarriesBothMessages ==
  \A i \in Units :
     (unit[i].axios = "fail" /\ unit[i].render = "fail" /\ unit[i].scrape.state = "err") =>
       /\ Includes(unit[i].scrape.val, Web(UrlOf(i)).axiosMsg)
       /\ Includes(unit[i].scrape.val, RenderOutcome(UrlOf(i)).val)

\* C6: for an inline data: address, or with forceRender set, scrape uses the
\* render tier only: the lightweight fetch is never attempted, and the
\* inline check is made before the forceRender flag is looked at.
C6_RenderOnlyWhenInlineOrForced ==
  \A i \in Units :
     (unit[i].strategy # "none" /\
      (StartsWith(UrlOf(i), "data:") \/ args.usePuppeteer)) =>
       /\ unit[i].axios = "none"
       /\ unit[i].renderCalls = 1
       /\ unit[i].strategy = IF StartsWith(UrlOf(i), "data:") THEN "inline" ELSE "forced"

\* scrape has ended for an inline address in a request that also forces
\* rendering, and for a network address in the same request
C6_Witness ==
  /\ args.usePuppeteer
  /\ \E i \in Units : StartsWith(UrlOf(i), "data:") /\ unit[i].scrape.state = "ok"
  /\ \E i \in Units : ~StartsWith(UrlOf(i), "data:") /\ unit[i].scrape.state = "ok"

C8_PlainMarkupIsReturnedUnrendered ==
  \A i \in Units :
     (unit[i].axios = "ok" /\ ~HasJsDependencyPhrase(Web(UrlOf(i)).body)) =>
       /\ unit[i].scrape = [state |-> "ok",
                             val |-> ExtractContent(UrlOf(i), Web(UrlOf(i)).body)]
       /\ unit[i].renderCalls = 0
       /\ unit[i].render = "none"
       /\ unit[i].own = NoBrowser
       /\ ~unit[i].page /\ unit[i].pageOn = NoBrowser

\* scrape has returned the lightweight record of an address whose markup
\* holds words of a phrase but not the phrase
C8_Witness ==
  \E i \in Units :
     /\ unit[i].axios = "ok"
     /\ ~HasJsDependencyPhrase(Web(UrlOf(i)).body)
     /\ Includes(Web(UrlOf(i)).body, <<"JavaScript">>)
     /\ unit[i].scrape.state = "ok"

\* C9: when the lightweight fetch fails, scrape escalates to the render
\* tier and, if the render tier succeeds, returns the rendered record as a
\* success.
C9_FailedFetchFallsBackToRender ==
  \A i \in Units :
     unit[i].axios = "fail" =>
       /\ unit[i].renderCalls = 1
       /\ unit[i].render # "none"
       /\ (ScrapeEnded(i) /\ unit[i].render = "ok") =>
             unit[i].scrape = [state |-> "ok",
                               val |-> ExtractContent(UrlOf(i), RenderedHtml)]
       /\ (ScrapeEnded(i) /\ RenderOutcome(UrlOf(i)).ok) => unit[i].scrape.state = "ok"

\* scrape has returned the rendered record of an address whose lightweight
\* fetch failed
C9_Witness ==
  \E i \in Units :
     /\ unit[i].axios = "fail"
     /\ unit[i].render = "ok"
     /\ unit[i].scrape.state = "ok"

\* C10: at most one render session is created between shutdowns, for every
\* interleaving of the rendering calls.
C10_AtMostOneSession == Cardinality(launched) <= 1

\* a shutdown has completed: a unit launched a session and none is referenced
ShutdownCompleted ==
  /\ closePc = "idle" /\ browser = NoBrowser
  /\ \E i \in Units : unit[i].own # NoBrowser

\* C11: every page opened by a rendering call is closed when that call
\* ends, whether it succeeded or failed; once all rendering calls have
\* settled no page remains open, while the session they used stays open
\* until the shutdown.
C11_PagesClosedSessionKept ==
  /\ \A i \in Units :
       /\ unit[i].page => unit[i].pc \in {"page", "closePage"}
       /\ unit[i].render \in {"ok", "fail"} /\ ScrapeEnded(i) => ~unit[i].page
  /\ (NoUnitPending /\ closePc = "idle" /\ ~ShutdownCompleted) =>
       /\ \A i \in Units : ~unit[i].page
       /\ \A i \in Units : unit[i].pageOn # NoBrowser => unit[i].pageOn \in openBrowsers
       /\ browser # NoBrowser => browser \in openBrowsers

\* all units have settled, one after a failed navigation on its page and
\* one after a successful render, and the session is still open
C11_Witness ==
  /\ NoUnitPending /\ closePc = "idle"
  /\ browser # NoBrowser /\ browser \in openBrowsers
  /\ \E i \in Units : unit[i].failedAt = "goto" /\ unit[i].pageOn # NoBrowser /\ ~unit[i].page
  /\ \E i \in Units : unit[i].render = "ok" /\ ~unit[i].page

\* C12: a render session is closed by close() and by nothing else, and once
\* close() has completed with every rendering call settled, no session is
\* left open or referenced.
C12_SessionClosedOnlyByShutdown ==
  /\ [][(openBrowsers \ openBrowsers' # {}) =>
          (closePc = "closing" /\ openBrowsers \ openBrowsers' = {closeTarget})]_vars
  /\ []((ShutdownCompleted /\ NoUnitPending) => openBrowsers = {})

\* name is a key of the registry
NameRegistered(name) == \E k \in 1..Len(ruleSets) : ruleSets[k].name = name

\* the last call was applyRules
Applied == ret.op = "applyRules"

\* C13: applyRules fails, with the unknown-rule-set error, exactly when the
\* name is not registered at the time of the call; an applyRules that
\* follows createRuleSet of the same name succeeds.
C13_ApplyFailsIffUnregistered ==
  /\ [](Applied =>
         /\ ret.value.ok <=> NameRegistered(ret.name)
         /\ ~ret.value.ok =>
               ret.value.val = <<"rule set \"", ret.name, "\" does not exist">>)
  /\ [][(ret.op = "createRuleSet" /\ ret'.op = "applyRules" /\ ret'.name = ret.name)
           => ret'.value.ok]_vars

\* applyRules has succeeded under a new name after a built-in was removed
C13_Witness ==
  /\ Applied /\ ret.name = "mine" /\ ret.value.ok
  /\ ~NameRegistered("blog")

\* the entry held under a name (claims read the registry directly)
EntryOf(registry, name) ==
  {registry[k] : k \in {j \in 1..Len(registry) : registry[j].name = name}}

\* C14: registering under an existing name replaces the rule set entirely:
\* right after createRuleSet the registry holds under that name exactly
\* the rules just given, an entry changes only by createRuleSet or
\* deleteRuleSet of its name, and applyRules gives what the entry's rules
\* alone give.
C14_RegisterReplacesEntirely ==
  /\ [][ret'.op = "createRuleSet" =>
          EntryOf(ruleSets', ret'.name) =
            {[name |-> ret'.name, rules |-> ret'.rules, description |-> ""]}]_vars
  /\ [][\A name \in AskedNames :
          (ret'.op \in {"createRuleSet", "deleteRuleSet"} /\ ret'.name = name)
          \/ EntryOf(ruleSets', name) = EntryOf(ruleSets, name)]_vars
  /\ [](Applied /\ NameRegistered(ret.name) =>
          \E entry \in EntryOf(ruleSets, ret.name) :
             ret.value = ApplyRules(<<entry>>, ret.name, record))

\* the built-in blog rule set was overwritten by rules that say nothing and
\* applyRules under that name left the title of the article page alone
C14_Witness ==
  /\ Applied /\ ret.name = "blog" /\ ret.value.ok
  /\ EntryOf(ruleSets, "blog") = {[name |-> "blog", rules |-> EmptyRules, description |-> ""]}
  /\ record.html = ArticleHtml
  /\ ret.value.val.title = <<"News">>

\* the rules applyRules used in the last call, and the document its steps
\* read: the record's markup without what the exclude list removed
AppliedRules == CHOOSE entry \in EntryOf(ruleSets, ret.name) : TRUE

RuledDocument == ApplyExclude(Load(record.html), AppliedRules.rules.exclude)

\* the members of a list
Members(xs) == {xs[k] : k \in 1..Len(xs)}

\* the addresses that the attribute of the elements a selector matches
\* resolves to
MatchedAddresses(doc, selector, attr, base) ==
  {ResolveUrl(doc.nodes[i].attrs[attr], base).val :
     i \in {j \in Members(Select(doc, selector)) :
              /\ attr \in DOMAIN doc.nodes[j].attrs
              /\ doc.nodes[j].attrs[attr] # <<>>
              /\ ResolveUrl(doc.nodes[j].attrs[attr], base).ok}}

\* C15: with a links (images) selector the result's links (images) are
\* exactly the addresses resolved from the elements the selector matches,
\* each once, so a selector that matches nothing gives none; without the
\* selector the record's links (images) are kept.
C15_SelectorReplacesLinksEntirely ==
  (Applied /\ ret.value.ok) =>
    LET rules  == AppliedRules.rules
        result == ret.value.val
    IN  /\ IF rules.links # NoSelector
           THEN /\ Members(result.links) =
                     MatchedAddresses(RuledDocument, rules.links, "href", record.url)
                /\ Cardinality(Members(result.links)) = Len(result.links)
                /\ Select(RuledDocument, rules.links) = <<>> => result.links = <<>>
           ELSE result.links = record.links
        /\ IF rules.images # NoSelector
           THEN /\ Members(result.images) =
                     MatchedAddresses(RuledDocument, rules.images, "src", record.url)
                /\ Cardinality(Members(result.images)) = Len(result.images)
                /\ Select(RuledDocument, rules.images) = <<>> => result.images = <<>>
           ELSE result.images = record.images

\* a rule set whose links selector matches nothing was applied to a record
\* that has links, and the result has none
C15_Witness ==
  /\ Applied /\ ret.value.ok
  /\ AppliedRules.rules.links = <<Class("nonexistent-selector")>>
  /\ record.links # <<>>
  /\ ret.value.val.links = <<>>

\* C16: a custom field whose selector matches exactly one element is a
\* string, that element's trimmed text; with k > 1 matches it is the
\* sequence of the k trimmed texts in document order; with no match the
\* field is absent from customData.
C16_CustomFieldCardinality ==
  (Applied /\ ret.value.ok) =>
    LET custom     == AppliedRules.rules.custom
        customData == ret.value.val.metadata["customData"]
        doc        == RuledDocument
    IN  /\ DOMAIN customData \subseteq {custom[e][1] : e \in 1..Len(custom)}
        /\ \A e \in 1..Len(custom) :
             LET key     == custom[e][1]
                 matches == Select(doc, custom[e][2])
             IN  /\ Len(matches) = 0 => key \notin DOMAIN customData
                 /\ Len(matches) = 1 =>
                      /\ key \in DOMAIN customData
                      /\ customData[key] =
                           [kind |-> "string", text |-> Trim(TextOf(doc, matches[1]))]
                 /\ Len(matches) > 1 =>
                      /\ key \in DOMAIN customData
                      /\ customData[key].kind = "array"
                      /\ Len(customData[key].items) = Len(matches)
                      /\ \A k \in 1..Len(matches) :
                            customData[key].items[k] = Trim(TextOf(doc, matches[k]))

\* one applyRules gave a string for the field with one match, a sequence
\* of three for the field with three and nothing for the field with none
C16_Witness ==
  /\ Applied /\ ret.value.ok
  /\ AppliedRules.rules = NarrowRules
  /\ LET customData == ret.value.val.metadata["customData"]
     IN  /\ DOMAIN customData = {"price", "tags"}
         /\ customData["price"] = [kind |-> "string", text |-> <<"42">>]
         /\ customData["tags"] = [kind |-> "array", items |-> <<<<"a">>, <<"b">>, <<"c">>>>]

\* a selector that is absent or matches no element of the record's markup
Unmatched(selector) ==
  selector = NoSelector \/ Select(Load(record.html), selector) = <<>>

\* C17: applying a rule set whose title and content selectors are absent
\* or match nothing in the markup to a record that extract produced gives
\* a record with the title and the body text of the input, exactly: cleaning
\* the cleaned text again changes nothing.
C17_RoundTripKeepsTitleAndText ==
  (/\ Applied /\ ret.value.ok
   /\ Unmatched(AppliedRules.rules.title)
   /\ Unmatched(AppliedRules.rules.content)) =>
    /\ ret.value.val.title = record.title
    /\ ret.value.val.content = record.content
    /\ CleanText(record.content) = record.content

\* rules whose title and content selectors match nothing were applied to
\* the record of the article page, whose title and text came back as they were
C17_Witness ==
  /\ Applied /\ ret.value.ok
  /\ AppliedRules.rules = UnmatchedRules
  /\ record.html = ArticleHtml
  /\ Len(record.content) > 1
  /\ ret.value.val.title = <<"News">>
  /\ ret.value.val.content = record.content

\* the nodes of the record's markup that the exclude list of the applied
\* rules names: every match of every exclude selector and all it contains
ExcludedNodes ==
  LET doc == Load(record.html)
      exclude == AppliedRules.rules.exclude
  IN  {i \in 1..Len(doc.nodes) :
         \E e \in 1..Len(exclude) :
            \E a \in Members(Select(doc, exclude[e])) : Within(doc, i, a)}

\* what only the excluded elements can contribute: the words of their text
\* nodes and the addresses of their attributes that the rest of the markup
\* does not have as well
ExcludedWords ==
  LET doc == Load(record.html)
      WordsOf(S) == {doc.nodes[i].data : i \in {j \in S : doc.nodes[j].kind = "text"}}
  IN  WordsOf(ExcludedNodes)
      \ (WordsOf((1..Len(doc.nodes)) \ ExcludedNodes) \cup Whitespace)

ExcludedAddresses(attr) ==
  LET doc == Load(record.html)
      AddressesOf(S) ==
        {ResolveUrl(doc.nodes[i].attrs[attr], record.url).val :
           i \in {j \in S : /\ attr \in DOMAIN doc.nodes[j].attrs
                            /\ ResolveUrl(doc.nodes[j].attrs[attr], record.url).ok}}
  IN  AddressesOf(ExcludedNodes) \ AddressesOf((1..Len(doc.nodes)) \ ExcludedNodes)

\* the words of the custom fields of a result
CustomWords(customData) ==
  UNION {IF customData[key].kind = "string" THEN Members(customData[key].text)
         ELSE UNION {Members(customData[key].items[k]) :
                       k \in 1..Len(customData[key].items)} :
         key \in DOMAIN customData}

\* a selector that is given and matches an element the exclude list left
MatchesKept(selector) ==
  selector # NoSelector /\ Select(RuledDocument, selector) # <<>>

\* C18 as stated: no excluded element contributes to the title, the body
\* text, the links, the images or the custom fields of the result.
C18_NoExcludedContribution ==
  (Applied /\ ret.value.ok) =>
    LET result == ret.value.val
    IN  /\ Members(result.title) \cap ExcludedWords = {}
        /\ Members(result.content) \cap ExcludedWords = {}
        /\ Members(result.links) \cap ExcludedAddresses("href") = {}
        /\ Members(result.images) \cap ExcludedAddresses("src") = {}
        /\ CustomWords(result.metadata["customData"]) \cap ExcludedWords = {}

\* C18 (amended): the exclude list is applied before any rule step reads
\* the document, so no excluded element contributes to a field that a rule
\* step derives: the title and the body text when their selector matches a
\* remaining element, the links and the images when their selector is
\* given, and the custom fields.  A field kept from the input record is as
\* extract made it.
C18_NoExcludedContributionToDerivedFields ==
  (Applied /\ ret.value.ok) =>
    LET result == ret.value.val
        rules  == AppliedRules.rules
    IN  /\ MatchesKept(rules.title) => Members(result.title) \cap ExcludedWords = {}
        /\ MatchesKept(rules.content) => Members(result.content) \cap ExcludedWords = {}
        /\ rules.links # NoSelector =>
              Members(result.links) \cap ExcludedAddresses("href") = {}
        /\ rules.images # NoSelector =>
              Members(result.images) \cap ExcludedAddresses("src") = {}
        /\ CustomWords(result.metadata["customData"]) \cap ExcludedWords = {}
        /\ ~MatchesKept(rules.title) => result.title = record.title
        /\ ~MatchesKept(rules.content) => result.content = record.content
        /\ rules.links = NoSelector => result.links = record.links
        /\ rules.images = NoSelector => result.images = record.images

\* rules that exclude the advertisement and name every field were applied
\* to the article page: the one price left is a string, and the link and
\* the image of the advertisement, which the input record has, are gone
C18_Witness ==
  /\ Applied /\ ret.value.ok
  /\ AppliedRules.rules = NarrowRules
  /\ record.html = ArticleHtml /\ record.url = StaticUrl
  /\ ExcludedNodes # {}
  /\ ret.value.val.metadata["customData"]["price"] = [kind |-> "string", text |-> <<"42">>]
  /\ Members(record.images) \cap ExcludedAddresses("src") # {}
  /\ ret.value.val.images # <<>>
  /\ Members(ret.value.val.images) \cap ExcludedAddresses("src") = {}

\* C19: applyRules returns a new record and leaves the record it was given
\* as it was (the stored markup too, whatever the exclude list removed
\* from the parsed copy); the result has the address, the markup and the
\* retrieval time of the input, and its metadata is the input's metadata
\* plus customData (which may be empty) and appliedRuleSet, the name of
\* the rule set.
C19_ApplyReturnsNewRecord ==
  [][(ret'.op = "applyRules" /\ ret'.value.ok) =>
       LET result == ret'.value.val
           added  == {"customData", "appliedRuleSet"}
       IN  /\ record' = record
           /\ result.url = record.url
           /\ result.html = record.html
           /\ result.timestamp = record.timestamp
           /\ DOMAIN result.metadata = DOMAIN record.metadata \cup added
           /\ \A key \in DOMAIN record.metadata \ added :
                 result.metadata[key] = record.metadata[key]
           /\ result.metadata["appliedRuleSet"] = ret'.name
           /\ \A entry \in EntryOf(ruleSets', ret'.name) :
                 DOMAIN result.metadata["customData"] \subseteq
                   {entry.rules.custom[e][1] : e \in 1..Len(entry.rules.custom)}]_vars

\* rules that exclude the advertisement were applied to the article page:
\* the result differs from the input in its links, has the whole markup,
\* the author the input's metadata names and the custom fields
C19_Witness ==
  /\ Applied /\ ret.value.ok
  /\ AppliedRules.rules = NarrowRules
  /\ record.html = ArticleHtml
  /\ ExcludedNodes # {}
  /\ ret.value.val.links # record.links
  /\ ret.value.val.html = ArticleHtml
  /\ record.metadata = ("author" :> <<"Ann">>)
  /\ ret.value.val.metadata["author"] = <<"Ann">>
  /\ DOMAIN ret.value.val.metadata["customData"] = {"price", "tags"}
  /\ ret.value.val.metadata["appliedRuleSet"] = ret.name

\* the names the registry holds
RegisteredNames == {ruleSets[k].name : k \in 1..Len(ruleSets)}

\* C20: deleteRuleSet returns true exactly when the name was registered at
\* the call, built-in names included, and the name is not registered after
\* it; a name that is not registered stays so until createRuleSet registers
\* it, and meanwhile getRuleSet reports it absent, listRuleSets does not
\* hold it and applyRules fails; listRuleSets returns each registered name
\* exactly once.
C20_RemoveThenAbsent ==
  /\ [][ret'.op = "deleteRuleSet" =>
          /\ ret'.value <=> ret'.name \in RegisteredNames
          /\ ret'.name \notin RegisteredNames'
          /\ RegisteredNames' = RegisteredNames \ {ret'.name}]_vars
  /\ [][\A name \in AskedNames :
          (name \notin RegisteredNames /\ name \in RegisteredNames') =>
            (ret'.op = "createRuleSet" /\ ret'.name = name)]_vars
  /\ [](ret.op = "getRuleSet" =>
          IF ret.name \in RegisteredNames
          THEN ret.value # Undefined /\ ret.value.name = ret.name
          ELSE ret.value = Undefined)
  /\ [](ret.op = "listRuleSets" =>
          /\ Members(ret.value) = RegisteredNames
          /\ Len(ret.value) = Cardinality(RegisteredNames))
  /\ [](Applied /\ ret.name \notin RegisteredNames => ~ret.value.ok)

\* the built-in blog rule set was removed: the call returned true, and the
\* registry no longer lists the name, finds it or applies it
C20_Witness ==
  /\ ret.op = "deleteRuleSet" /\ ret.name = "blog" /\ ret.value
  /\ "blog" \notin Members(ListRuleSets(ruleSets))
  /\ "news" \in Members(ListRuleSets(ruleSets))
  /\ GetRuleSet(ruleSets, "blog") = Undefined
  /\ ~ApplyRules(ruleSets, "blog", record).ok

\* C27: within one scrape call scrapeWithPuppeteer is invoked at most once;
\* when the JS-dependency heuristic escalated to rendering and the rendering
\* failed, scrape rejects with that rendering's error and nothing renders a
\* second time.
C27_RenderInvokedAtMostOnce ==
  \A i \in Units :
    /\ unit[i].renderCalls <= 1
    /\ (unit[i].axios = "ok" /\ unit[i].render = "fail" /\ ScrapeEnded(i)) =>
         /\ unit[i].renderCalls = 1
         /\ unit[i].scrape = [state |-> "err", val |-> RenderOutcome(UrlOf(i)).val]
         /\ unit[i].promise.value = FailureEntry(UrlOf(i), RenderOutcome(UrlOf(i)).val)

\* the lightweight tier answered with JS-dependent markup, the escalated
\* rendering failed, and the call has ended after that one rendering
C27_Witness ==
  \E i \in Units :
    /\ UrlOf(i) = SpaUrl
    /\ unit[i].strategy = "default" /\ unit[i].axios = "ok"
    /\ unit[i].render = "fail" /\ unit[i].renderCalls = 1
    /\ unit[i].pc = "settled" /\ ~unit[i].promise.value.success

\* C28: no unit's promise is ever rejected, so the "rejected" branch of the
\* orchestrator's result mapping is never taken, and every entry of a
\* returned batch carries the url it was given and a success flag.
C28_EveryEntryCarriesUrlAndSuccess ==
  /\ \A i \in Units : unit[i].promise.status \in {"pending", "fulfilled"}
  /\ phase = "returned" =>
       /\ Len(response) = Len(args.urls)
       /\ \A k \in 1..Len(response) :
            /\ {"url", "success"} \subseteq DOMAIN response[k]
            /\ response[k].url = args.urls[k]
            /\ response[k].success \in BOOLEAN

\* a batch returned whose first address does not parse and whose second
\* address could not be retrieved by either tier: both entries are failure
\* entries of the units themselves
C28_Witness ==
  /\ phase = "returned"
  /\ args.urls = <<BadUrl, DownUrl>>
  /\ \A k \in 1..2 : response[k] = unit[k].promise.value /\ ~response[k].success
  /\ response[1].error = <<"Invalid URL">>

\* the addresses that the references an attribute holds anywhere in a page
\* resolve to against a source address
ResolvableReferences(html, attr, base) ==
  LET nodes == Load(html).nodes
  IN  {ResolveUrl(nodes[i].attrs[attr], base).val :
         i \in {j \in DOMAIN nodes :
                  /\ attr \in DOMAIN nodes[j].attrs
                  /\ nodes[j].attrs[attr] # <<>>
                  /\ ResolveUrl(nodes[j].attrs[attr], base).ok}}

\* an address with a network scheme, a host and a path
IsAbsolute(address) == Len(address) = 3 /\ address[1] \in Schemes

\* a list of absolute addresses, each resolved from a reference of the page
\* and none of them twice
ResolvedOnce(list, html, attr, base) ==
  /\ \A k \in 1..Len(list) :
       IsAbsolute(list[k]) /\ list[k] \in ResolvableReferences(html, attr, base)
  /\ Cardinality(Members(list)) = Len(list)

\* C25: the links and images of every record that extractContent built, and
\* of every record applyRules returned for it, are absolute addresses that
\* a reference of the page resolved to against the record's address, each
\* at most once; a reference that does not resolve contributes nothing.
C25_LinksAndImagesAreResolvedOnce ==
  /\ ResolvedOnce(record.links, record.html, "href", record.url)
  /\ ResolvedOnce(record.images, record.html, "src", record.url)
  /\ (Applied /\ ret.value.ok) =>
       /\ ResolvedOnce(ret.value.val.links, record.html, "href", record.url)
       /\ ResolvedOnce(ret.value.val.images, record.html, "src", record.url)

\* the article page, which holds a link twice, a link without a reference,
\* an empty one and one that does not resolve, was extracted and a rule set
\* with a links selector applied: the repeated link is there once
C25_Witness ==
  /\ record.html = ArticleHtml /\ record.url = StaticUrl
  /\ Applied /\ ret.value.ok /\ AppliedRules.rules.links # NoSelector
  /\ ret.value.val.links = << <<"https://", "github.com", "/more">>,
                              <<"https://", "docs.test", "/api">> >>
  /\ <<"https://", "github.com", "/more">> \in Members(record.links)
  /\ ~ResolveUrl(<<"http://">>, record.url).ok

\* C26: every a[href] (img[src]) element of the page whose reference
\* resolves contributes its address to the links (images) of the record
\* extractContent builds, wherever the element sits in the page, inside a
\* nav, header, footer or aside container included.
C26_EveryAnchorAndImageContributes ==
  /\ ResolvableReferences(record.html, "href", record.url) \subseteq Members(record.links)
  /\ ResolvableReferences(record.html, "src", record.url) \subseteq Members(record.images)

\* the tools handleRequest dispatches
ToolNames == {"scrape_url", "create_rule_set", "set_domain_headers", "batch_scrape"}

\* the text handleRequest's catch block builds from a thrown message
ErrorText(msg) == Words(<<"error: ">> \o msg)

\* this step answered a request of the named tool
Handled(name) == reply'.request # reply.request /\ reply'.request.name = name

\* the text of a reply
ReplyText(r) == r.content[1].text

\* C21: whatever the tool name and the arguments, handleRequest answers with
\* one text item; a tool it does not have, a required field that is missing
\* and a retrieval that failed are each answered with the uniform error text
\* built from the error thrown, a retrieval that succeeded with what it
\* exported.
C21_EveryRequestIsAnsweredWithText ==
  /\ [](/\ Len(reply.content) = 1
        /\ reply.content[1].type = "text"
        /\ reply.error <=> StartsWith(ReplyText(reply).words, "error: "))
  /\ [](reply.request.name \notin ToolNames \cup {"none"} =>
          ReplyText(reply) =
            ErrorText(<<"unknown or unsupported tool: ", reply.request.name>>))
  /\ [][(phase = "running" /\ phase' = "returned" /\ args.tool = "scrape_url") =>
          ReplyText(reply') =
            IF unit[1].promise.status = "rejected"
            THEN ErrorText(unit[1].promise.value)
            ELSE Documents(<<unit[1].promise.value>>)]_vars
  /\ [][(Handled("scrape_url") /\ "url" \in DOMAIN reply'.request.arguments) =>
          ReplyText(reply') = ErrorText(<<"Invalid URL">>)]_vars
  /\ [][(Handled("scrape_url") /\ "urls" \notin DOMAIN reply'.request.arguments
           /\ "url" \notin DOMAIN reply'.request.arguments) =>
          ReplyText(reply') = ErrorText(TypeError("startsWith"))]_vars
  /\ [][(Handled("batch_scrape") /\ phase' = phase) =>
          ReplyText(reply') = ErrorText(TypeError("length"))]_vars
  /\ [][(Handled("set_domain_headers") /\ "domain" \notin DOMAIN reply'.request.arguments) =>
          ReplyText(reply') = ErrorText(TypeError("replace"))]_vars

\* a scrape_url call whose address neither tier could retrieve was answered
\* with the error text of the render tier's failure
C21_Witness ==
  /\ reply.request.name = "scrape_url"
  /\ "urls" \in DOMAIN reply.request.arguments
  /\ reply.request.arguments.urls = <<DownUrl>>
  /\ reply.error
  /\ ReplyText(reply) = ErrorText(PuppeteerError(<<"net::ERR_CONNECTION_REFUSED">>))

\* the fields each tool requires
RequiredFields(name) ==
  CASE name = "scrape_url"         -> {"url"}
    [] name = "batch_scrape"       -> {"urls"}
    [] name = "create_rule_set"    -> {"name", "rules"}
    [] name = "set_domain_headers" -> {"domain", "headers"}
    [] OTHER                       -> {}

\* a request of the model that lacks a field its tool requires
Incomplete(request) ==
  /\ request \in Requests
  /\ ~(RequiredFields(request.name) \subseteq DOMAIN request.arguments)

\* C22: a request that lacks a field its tool requires is refused before
\* anything is invoked: answering it leaves the rule registry and the
\* header store as they were and starts no retrieval.
C22_IncompleteRequestsChangeNothing ==
  [][(reply'.request # reply.request /\ Incomplete(reply'.request)) =>
       /\ ruleSets' = ruleSets
       /\ domainHeaders' = domainHeaders
       /\ unit' = unit /\ phase' = phase]_vars

\* C23: the customHeaders of a scrape_url call are used for that call only:
\* a call that supplies none sends no header that only an earlier call's
\* customHeaders named (in the model the field X-Once is given by
\* customHeaders and by no set_domain_headers request or built-in entry).
C23_CustomHeadersAreOneTime ==
  \A i \in Units :
    "customHeaders" \notin DOMAIN args =>
      DOMAIN unit[i].headers \cap DOMAIN OnceHeaders = {}

\* the bare lower-case host a domain text names, however it is written
BareHost(domain) ==
  LowerToken(IF LowerToken(BeforeDelimiter(domain[1])) \in {"http", "https"} /\ Len(domain) > 1
             THEN domain[2] ELSE domain[1])

\* the headers a store holds for a host
EntryFor(store, host) == IF host \in DOMAIN store THEN store[host] ELSE EmptyHeaders

\* C24: set_domain_headers(domain, headers) merges the headers key by key
\* into the entry of the domain's bare lower-case host, whether the domain
\* was given with a scheme, a port, a path or upper-case letters (a given
\* key takes the new value, the entry's other keys stay); every scrape_url
\* call and batch unit started afterwards hands the fields of its host's
\* entry to both retrieval tiers, which send them.
C24_DomainHeadersReachTheTiers ==
  /\ [][(Handled("set_domain_headers") /\ ~reply'.error
           /\ "headers" \in DOMAIN reply'.request.arguments) =>
          LET a    == reply'.request.arguments
              host == BareHost(a.domain)
              old  == EntryFor(domainHeaders, host)
              new  == EntryFor(domainHeaders', host)
          IN  /\ DOMAIN new = DOMAIN old \cup DOMAIN a.headers
              /\ \A k \in DOMAIN a.headers : new[k] = a.headers[k]
              /\ \A k \in DOMAIN old \ DOMAIN a.headers : new[k] = old[k]
              /\ \A other \in DOMAIN domainHeaders \ {host} :
                   EntryFor(domainHeaders', other) = domainHeaders[other]]_vars
  /\ [][(phase # "running" /\ phase' = "running") =>
          \A i \in DOMAIN unit' :
            UrlParses(args'.urls[i]) =>
              LET entry == EntryFor(domainHeaders', Hostname(args'.urls[i]))
              IN  \A k \in DOMAIN entry :
                    /\ AxiosRequestHeaders(unit'[i].headers)[k] = entry[k]
                    /\ PageExtraHeaders(unit'[i].headers)[k] = entry[k]]_vars

SettledWith(i, ok, value) ==
  IF args.tool = "scrape_url"
  THEN unit'[i].promise = [status |-> IF ok THEN "fulfilled" ELSE "rejected", value |-> value]
  ELSE unit'[i].promise.value =
         IF ok THEN SuccessEntry(UrlOf(i), value) ELSE FailureEntry(UrlOf(i), value)

\* C30: the rule set a scrape_url call or a batch unit names is looked up
\* when its retrieval finishes: the step in which scrape() resolves applies
\* the rules registered under the name at that moment, whatever was
\* registered when the request was received, and fails with the registry's
\* error exactly when the name is not registered then.
C30_RuleSetIsLookedUpWhenRetrievalFinishes ==
  [][\A i \in Units :
       (unit[i].scrape.state = "pending" /\ unit'[i].scrape.state = "ok"
          /\ args.ruleSet # "") =>
         LET ruled == ApplyRules(ruleSets, args.ruleSet, unit'[i].scrape.val)
         IN  /\ ruled.ok <=> NameRegistered(args.ruleSet)
             /\ IF NameRegistered(args.ruleSet)
                THEN SettledWith(i, TRUE, Export(ruled.val, args.format).val)
                ELSE SettledWith(i, FALSE, ruled.val)]_vars

\* a batch naming a rule set returned: its first unit finished retrieving
\* while the name was not registered and failed, its second unit finished
\* after create_rule_set had registered the name and succeeded with the
\* ruled record
C30_Witness ==
  /\ phase = "returned" /\ args.tool = "batch_scrape" /\ args.ruleSet = "mine"
  /\ ~response[1].success /\ response[1].error = ApplyRules(DefaultRuleSets, "mine", record).val
  /\ response[2].success
  /\ response[2].content.of.metadata["appliedRuleSet"] = "mine"

====
